---- MODULE Spec2Model ----
(***************************************************************************)
(* ClawRouter: the x402 payment engine (x402.ts), the payment-parameter    *)
(* cache (payment-cache.ts), the balance monitor (balance.ts), the request *)
(* deduplicator (dedup.ts) and the proxy orchestrator (proxy.ts).          *)
(*                                                                         *)
(* Node.js runs every handler on one thread: code between two awaits is    *)
(* one atomic step, and the steps of concurrent requests interleave at the *)
(* awaits.  Every action below is one such run-to-the-next-await segment.  *)
(***************************************************************************)
EXTENDS Integers, Sequences, FiniteSets, TLC

VARIABLES
    now,        \* Date.now(), in milliseconds
    ticks,      \* number of clock advances taken so far
    cache,      \* PaymentCache.cache: path -> CachedPaymentParams | NoEntry
    pay,        \* one payFetch activation per call slot
    lastGet,    \* the most recent direct PaymentCache.get: path, time, result
    lastTerms,  \* per path: the last challenge option handle402 cached, and when
    req,            \* proxyRequest: one activation per request received
    inflight,       \* RequestDeduplicator: key -> the request whose marker is registered
    settled,        \* the completion signal of each request's marker: the entry it resolved with
    completed,      \* RequestDeduplicator: key -> completed entry
    cachedBalance,  \* BalanceMonitor.cachedBalance
    cachedAt,       \* BalanceMonitor.cachedAt
    mon,            \* BalanceMonitor called directly: checkBalance activations, last call
    calc            \* a function called on its own: its argument, and its result once returned

proxyVars == <<req, inflight, settled, completed, cachedBalance, cachedAt>>

----------------------------------------------------------------------------
(* Bounds of the model *)

\* number of requests the proxy receives in one behaviour
NReq == 2
\* number of payFetch activations a direct caller of the engine keeps running
\* at once (a finished activation's slot is used again)
NCalls == 1
\* number of clock advances in one behaviour
MaxTicks == 2

(* Program constants *)

\* payment-cache.ts: const DEFAULT_TTL_MS = 3_600_000
DEFAULT_TTL_MS == 3600000
\* balance.ts: const CACHE_TTL_MS = 30_000
CACHE_TTL_MS == 30000
\* balance.ts: BALANCE_THRESHOLDS.ZERO_THRESHOLD and LOW_BALANCE_MICROS
ZERO_THRESHOLD == 100
LOW_BALANCE_MICROS == 1000000
\* dedup.ts: completed responses stay visible for 30 s
DEDUP_TTL_MS == 30000

Reqs == 1 .. NReq
Calls == 1 .. NCalls

\* an absent optional (undefined) amount
Absent == -1

NoEntry == [kind |-> "none"]
NoResponse == [kind |-> "none"]
\* no direct cache.get has just returned
NoGet == [kind |-> "none"]

\* request paths the proxy forwards (new URL(url).pathname)
Paths == {"/v1/chat/completions"}

----------------------------------------------------------------------------
(* Upstream: challenge headers and responses *)

OptA == [payTo |-> "payeeA", asset |-> "usdcA", scheme |-> "exact",
         network |-> "eip155:8453", amount |-> 1000, maxAmountRequired |-> Absent]
OptB == [payTo |-> "payeeB", asset |-> "usdcB", scheme |-> "upto",
         network |-> "eip155:1", amount |-> Absent, maxAmountRequired |-> 4000]
OptNoAmount == [payTo |-> "payeeA", asset |-> "usdcA", scheme |-> "exact",
         network |-> "eip155:8453", amount |-> Absent, maxAmountRequired |-> Absent]

\* x-payment-required header values: absent, undecodable, or a decoded
\* PaymentRequired whose accepts list is given
NoHeader == [kind |-> "noheader"]
Garbage == [kind |-> "garbage"]
Challenge(accepts) == [kind |-> "challenge", accepts |-> accepts]

ChallengeHeaders ==
    { Garbage, Challenge(<<>>), Challenge(<<OptA>>), Challenge(<<OptB, OptA>>),
      Challenge(<<OptNoAmount, OptA>>) }

Response(status, hdr) == [kind |-> "response", status |-> status, hdr |-> hdr]

\* what one upstream fetch may answer
UpstreamResponses ==
    { Response(200, NoHeader), Response(500, NoHeader), Response(402, NoHeader) }
    \cup { Response(402, h) : h \in ChallengeHeaders }

\* cost estimates a caller may pass as preAuth.estimatedAmount (Absent: none)
Estimates == {Absent, 2500}

----------------------------------------------------------------------------
(* PaymentCache (payment-cache.ts) *)

\* mutant of CacheExpired: an entry exactly TTL old already counts as expired
CacheExpiredAtTtl(entry, t) == t - entry.cachedAt >= DEFAULT_TTL_MS

\* mutant of CacheExpired: an entry is served whatever its age
CacheNeverExpires(entry, t) == FALSE

\* get(): the entry served, and the map afterwards (an expired entry is deleted)
CacheExpired(entry, t) == t - entry.cachedAt > DEFAULT_TTL_MS

CacheGetResult(c, p, t) ==
    IF c[p] = NoEntry THEN NoEntry
    ELSE IF CacheExpired(c[p], t) THEN NoEntry
    ELSE c[p]

\* mutant of CacheAfterGet: the expired entry is reported absent but kept
CacheAfterGetKeeps(c, p, t) == c

CacheAfterGet(c, p, t) ==
    IF c[p] # NoEntry /\ CacheExpired(c[p], t) THEN [c EXCEPT ![p] = NoEntry]
    ELSE c

\* set(): { ...params, cachedAt: Date.now() }
CacheSet(c, p, params, t) ==
    [c EXCEPT ![p] = [kind |-> "entry", payTo |-> params.payTo, asset |-> params.asset,
                      scheme |-> params.scheme, network |-> params.network,
                      cachedAt |-> t]]

----------------------------------------------------------------------------
(* payFetch / handle402 (x402.ts) *)

\* one request sent upstream: unsigned, or carrying a payment-signature
Unsigned == [signed |-> FALSE]
Signed(payTo, value) == [signed |-> TRUE, payTo |-> payTo, value |-> value]

\* A payFetch activation.  While it runs: the path, the caller's estimate and
\* the requests sent so far.  Once it is over: the Response it resolved with or
\* the cause it rejected with, how many requests it had sent, and whether the
\* first of them was pre-signed.
IdlePay == [pc |-> "idle", path |-> "/v1/chat/completions", est |-> Absent,
            sent |-> <<>>, result |-> NoResponse, sends |-> 0,
            preAuthed |-> FALSE, cause |-> "none"]

PayPending(c) == pay[c].pc \in {"fetch1", "fetch2"}

PayReturned(call, rsp) ==
    [IdlePay EXCEPT !.pc = "returned", !.result = rsp, !.sends = Len(call.sent),
                    !.preAuthed = call.sent[1].signed]

PayThrown(call, cause) ==
    [IdlePay EXCEPT !.pc = "thrown", !.cause = cause, !.sends = Len(call.sent),
                    !.preAuthed = call.sent[1].signed]

\* option.amount || option.maxAmountRequired
OptionAmount(option) ==
    IF option.amount # Absent THEN option.amount ELSE option.maxAmountRequired

\* handle402 throws: undecodable header, no option, or no amount
Handle402Throws(hdr) ==
    \/ hdr.kind = "garbage"
    \/ hdr.accepts = <<>>
    \/ OptionAmount(hdr.accepts[1]) = Absent

\* mutant of Handle402Retry: only option.amount is read, not maxAmountRequired
Handle402RetryAmountOnly(option) == Signed(option.payTo, option.amount)

\* handle402's retry: the request sent again with the challenge's payment
Handle402Retry(option) == Signed(option.payTo, OptionAmount(option))

\* handle402(call, hdr): parse, set the cache, sign, retry once.  The
\* activation afterwards: thrown, or waiting for the retry's answer
Handle402Call(call, hdr) ==
    IF Handle402Throws(hdr) THEN PayThrown(call, "challenge")
    ELSE [call EXCEPT !.pc = "fetch2",
                      !.sent = Append(@, Handle402Retry(hdr.accepts[1]))]

\* mutant of Handle402Cache: the first option is cached before its amount is looked at
Handle402CacheEarly(c, call, hdr, t) ==
    IF hdr.kind = "garbage" \/ hdr.accepts = <<>> THEN c
    ELSE CacheSet(c, call.path, hdr.accepts[1], t)

\* handle402's paymentCache.set, made before the authorization is signed
Handle402Cache(c, call, hdr, t) ==
    IF Handle402Throws(hdr) THEN c ELSE CacheSet(c, call.path, hdr.accepts[1], t)

\* the pre-auth branch is taken: cached terms and an estimate
UsePreAuth(cached, est) == cached # NoEntry /\ est # Absent

\* the first request payFetch sends
FirstAttempt(cached, est) ==
    IF UsePreAuth(cached, est) THEN Signed(cached.payTo, est) ELSE Unsigned

\* payFetch up to its first fetch: look the path up, pre-sign when possible
BeginCall(c, p, est, t) ==
    [IdlePay EXCEPT !.pc = "fetch1", !.path = p, !.est = est,
                    !.sent = <<FirstAttempt(CacheGetResult(c, p, t), est)>>]

\* mutant of MissingHeaderOutcome: a 402 without the header is thrown on both paths
MissingHeaderAlwaysThrown(call, rsp) == PayThrown(call, "noheader")

\* a 402 without x-payment-required: thrown on the normal path, returned as-is
\* when it rejects a pre-signed first attempt
MissingHeaderOutcome(call, rsp) ==
    IF call.sent[1].signed THEN PayReturned(call, rsp) ELSE PayThrown(call, "noheader")

\* a 402 first response carries a challenge that payFetch hands to handle402
GoesToHandle402(rsp) == rsp.status = 402 /\ rsp.hdr # NoHeader

\* the activation after the first fetch resolved with rsp
FirstResponseCall(call, rsp) ==
    IF rsp.status # 402 THEN PayReturned(call, rsp)
    ELSE IF rsp.hdr = NoHeader THEN MissingHeaderOutcome(call, rsp)
    ELSE Handle402Call(call, rsp.hdr)

\* the payment cache after the first fetch resolved with rsp
FirstResponseCache(c, call, rsp, t) ==
    IF GoesToHandle402(rsp) THEN Handle402Cache(c, call, rsp.hdr, t) ELSE c

\* mutant of RetryOutcome: a retry answered by another challenge is paid again
RetryOutcomeLoops(call, rsp) ==
    IF rsp.status = 402 /\ rsp.hdr.kind = "challenge" /\ ~ Handle402Throws(rsp.hdr)
    THEN [call EXCEPT !.sent = Append(@, Handle402Retry(rsp.hdr.accepts[1]))]
    ELSE PayReturned(call, rsp)

\* what payFetch does with the answer to handle402's retry: returns it
RetryOutcome(call, rsp) == PayReturned(call, rsp)

\* the terms handle402 cached last for each path, and when
TermsNoted(lt, call, rsp, t) ==
    IF GoesToHandle402(rsp) /\ ~ Handle402Throws(rsp.hdr)
    THEN [lt EXCEPT ![call.path] = [kind |-> "terms", option |-> rsp.hdr.accepts[1], at |-> t]]
    ELSE lt

----------------------------------------------------------------------------
(* RequestDeduplicator (dedup.ts), from its contract *)

\* request bodies after routing and stream:false rewriting; the dedup key is
\* the digest of this body, so the body stands for its key
Bodies == {"b1", "b2"}

\* a completed entry is visible for DEDUP_TTL_MS after completedAt
DedupVisible(entry, t) == entry # NoEntry /\ t - entry.completedAt <= DEDUP_TTL_MS

\* getCached(key)
GetCached(comp, k, t) == IF DedupVisible(comp[k], t) THEN comp[k] ELSE NoEntry

\* getCached drops an entry it finds expired
AfterGetCached(comp, k, t) ==
    IF comp[k] # NoEntry /\ ~ DedupVisible(comp[k], t) THEN [comp EXCEPT ![k] = NoEntry]
    ELSE comp

\* markInflight(key) by request r: a marker with a fresh completion signal
MarkInflight(inf, k, r) == [inf EXCEPT ![k] = r]

\* removeInflight(key): the marker goes, its signal stays unresolved
RemoveInflight(inf, k) == [inf EXCEPT ![k] = 0]

\* complete(key, entry): resolves the signal of the marker registered at key
CompleteSignals(sig, inf, k, entry) ==
    IF inf[k] # 0 THEN [sig EXCEPT ![inf[k]] = entry] ELSE sig

\* complete(key, entry): stores the completed entry
CompleteStore(comp, k, entry) == [comp EXCEPT ![k] = entry]

DedupEntry(status, headers, body, t) ==
    [kind |-> "entry", status |-> status, headers |-> headers, body |-> body,
     completedAt |-> t]

----------------------------------------------------------------------------
(* BalanceMonitor (balance.ts) *)

\* cachedBalance: bigint | null
NullBalance == -1

\* what balanceOf answers when the RPC read succeeds
ChainBalances == {99, 100, 5000}

\* outcomes of client.readContract: a balance, or a rejection
ReadOutcomes ==
    { [ok |-> TRUE, balance |-> b] : b \in ChainBalances }
    \cup { [ok |-> FALSE, balance |-> 0] }

\* mutant of FetchBalance: a failed read is answered with a funded balance
FetchBalanceOptimistic(outcome) == IF outcome.ok THEN outcome.balance ELSE 5000

\* fetchBalance(): the balance read, 0n when the read throws
FetchBalance(outcome) == IF outcome.ok THEN outcome.balance ELSE 0

\* mutant of BalanceCacheValid: a cached balance is served whatever its age
BalanceCacheValidIgnoresAge(bal, at, t) == bal # NullBalance

\* checkBalance(): the cached balance is served
BalanceCacheValid(bal, at, t) == bal # NullBalance /\ t - at < CACHE_TTL_MS

\* mutant of IsEmpty: a balance of exactly the threshold counts as empty
IsEmptyAtThreshold(balance) == balance <= ZERO_THRESHOLD

\* mutant of IsLow: a balance of exactly the threshold counts as low
LowThresholdIncluded(balance) == balance <= LOW_BALANCE_MICROS

\* buildInfo()
IsEmpty(balance) == balance < ZERO_THRESHOLD
IsLow(balance) == balance < LOW_BALANCE_MICROS

\* mutant of Sufficient: every balance is reported to cover the cost
SufficientAlways(balance, cost) == TRUE

\* checkSufficient()
Sufficient(balance, cost) == balance >= cost

\* mutant of DeductEstimated: the amount is deducted whatever the balance
DeductEstimatedUnchecked(bal, amount) ==
    IF bal # NullBalance THEN bal - amount ELSE bal

\* deductEstimated()
DeductEstimated(bal, amount) ==
    IF bal # NullBalance /\ bal >= amount THEN bal - amount ELSE bal

\* number of checkBalance calls a direct caller keeps running at once
NChecks == 2
Checks == 1 .. NChecks

\* A checkBalance activation: the `now` it captured, the balance it returned,
\* whether it read the chain, how old the cache was when it was served from
\* it, and whether invalidate() ran while its read was under way
IdleCheck == [pc |-> "idle", start |-> 0, info |-> NullBalance, read |-> FALSE,
              age |-> 0, overtaken |-> FALSE]

\* the last deductEstimated or invalidate call: the cache before and after
NoCall == [op |-> "none", amount |-> 0, before |-> NullBalance, beforeAt |-> 0,
           after |-> NullBalance, afterAt |-> 0, at |-> 0]

\* calls: the activations; last: the last synchronous call; old: the cache
\* was last written by a read that invalidate() overtook
IdleMon == [calls |-> [c \in Checks |-> IdleCheck], last |-> NoCall, old |-> FALSE]

----------------------------------------------------------------------------
(* proxyRequest and the request handler around it (proxy.ts) *)

\* estimateAmount(modelId, body.length, maxTokens) of each body: b2 names the
\* model "auto", which has no pricing entry, so it has no estimate
BodyEstimate(b) == IF b = "b1" THEN 2500 ELSE Absent

\* what has been written to the client's ServerResponse
NoOut == [status |-> 0, headers |-> "none", body |-> <<>>, ended |-> FALSE]

\* What the upstream's 200 body holds: text that JSON.parse rejects, or a
\* completion whose choices carry content that is, after the thinking tokens
\* are stripped, a text or empty
Unparsable == [parsed |-> FALSE, choices |-> <<>>]
Json(choices) == [parsed |-> TRUE, choices |-> choices]
Payloads == { Unparsable, Json(<<"text", "empty">>) }

\* no 200 body was re-chunked for the request
NoPayload == [parsed |-> FALSE, choices |-> <<"none">>]

\* One activation of the request handler.  pc: idle (not received), await
\* (awaiting an in-flight original), rpc (awaiting the balance read), pay
\* (awaiting payFetch), body (reading the upstream body), done.
IdleReq == [pc |-> "idle", body |-> "b1", stream |-> FALSE, client |-> "here",
            waitOn |-> 0, info |-> NullBalance, readStart |-> 0, readFailed |-> FALSE,
            hooked |-> FALSE, hb |-> FALSE, timer |-> FALSE, completed |-> FALSE,
            up |-> 0, out |-> NoOut, via |-> "none", cause |-> "none",
            notified |-> 0, warned |-> 0, fetches |-> 0, during |-> {},
            payload |-> NoPayload, fwdStream |-> FALSE]

Active(q) == q.pc \in {"await", "rpc", "pay", "body"}

\* error.message of what proxyRequest throws: the texts of EmptyWalletError
\* and InsufficientFundsError with the wallet address, the timeout text, or
\* the message of the error payFetch or the body read rejected with
ErrorMessage(cause) ==
    IF cause = "empty_wallet"
    THEN <<"No USDC balance", "Fund wallet to use ClawRouter", "walletAddress">>
    ELSE IF cause = "insufficient_funds"
    THEN <<"Insufficient USDC balance", "Current", "Required", "Fund wallet", "walletAddress">>
    ELSE IF cause = "timeout" THEN <<"Request timed out after">>
    ELSE <<cause>>

\* mutant of ErrorDelivered: the SSE error event is not followed by the
\* terminator
ErrorDeliveredNoTerminator(out, cause) ==
    IF out.status = 0
    THEN [status |-> 502, headers |-> "json",
          body |-> <<"proxy_error", "Proxy error: ">> \o ErrorMessage(cause),
          ended |-> TRUE]
    ELSE IF ~ out.ended
    THEN [out EXCEPT !.body = @ \o <<"proxy_error">> \o ErrorMessage(cause),
                     !.ended = TRUE]
    ELSE out

\* the handler's catch: 502 JSON with "Proxy error: " and the message when no
\* header was sent, else an SSE error event with the message and the
\* terminator, else nothing
ErrorDelivered(out, cause) ==
    IF out.status = 0
    THEN [status |-> 502, headers |-> "json",
          body |-> <<"proxy_error", "Proxy error: ">> \o ErrorMessage(cause),
          ended |-> TRUE]
    ELSE IF ~ out.ended
    THEN [out EXCEPT !.body = @ \o <<"proxy_error">> \o ErrorMessage(cause) \o <<"done">>,
                     !.ended = TRUE]
    ELSE out

\* res.writeHead(entry.status, entry.headers); res.end(entry.body)
\* mutant of Served: status and headers of the entry, but no body
ServedWithoutBody(q, entry, via) ==
    [q EXCEPT !.pc = "done", !.via = via,
              !.out = [status |-> entry.status, headers |-> entry.headers,
                       body |-> <<>>, ended |-> TRUE]]

Served(q, entry, via) ==
    [q EXCEPT !.pc = "done", !.via = via,
              !.out = [status |-> entry.status, headers |-> entry.headers,
                       body |-> entry.body, ended |-> TRUE]]

\* streaming: 200 + SSE headers and the first heartbeat, before payment
EarlyHeaders(q) ==
    IF q.stream
    THEN [status |-> 200, headers |-> "sse-early", body |-> <<"hb">>, ended |-> FALSE]
    ELSE q.out

\* mutant of Rejected: the early streaming headers and the first keep-alive
\* are written before the gate throws
RejectedAfterHeaders(q, cause) ==
    [q EXCEPT !.pc = "done", !.via = "rejected", !.cause = cause,
              !.notified = @ + 1, !.out = ErrorDelivered(EarlyHeaders(q), cause)]

\* mutant of Rejected: a streaming request is rejected without the notification
RejectedSilentWhenStreaming(q, cause) ==
    [q EXCEPT !.pc = "done", !.via = "rejected", !.cause = cause,
              !.notified = IF q.stream THEN @ ELSE @ + 1,
              !.out = ErrorDelivered(q.out, cause)]

\* the balance gate throws: the error reaches the handler's catch
Rejected(q, cause) ==
    [q EXCEPT !.pc = "done", !.via = "rejected", !.cause = cause,
              !.notified = @ + 1, !.out = ErrorDelivered(q.out, cause)]

\* from the heartbeat to the payFetch call: headers flushed, heartbeat and
\* timeout armed, close handler registered
StartedPay(q, low) ==
    [q EXCEPT !.pc = "pay", !.out = EarlyHeaders(q), !.hb = q.stream,
              !.hooked = TRUE, !.timer = TRUE, !.fetches = @ + 1,
              !.warned = IF low THEN @ + 1 ELSE @]

\* payFetch resolved: timeout and heartbeat cleared; non-streaming forwards
\* the upstream status and headers at once
AfterPay(q, status) ==
    [q EXCEPT !.pc = "body", !.timer = FALSE, !.hb = FALSE, !.up = status,
              !.out = IF q.stream THEN @
                      ELSE [status |-> status, headers |-> "upstream", body |-> <<>>,
                            ended |-> FALSE]]

\* the catch block of proxyRequest and then the handler's catch
Failed(q, cause) ==
    [q EXCEPT !.pc = "done", !.timer = FALSE, !.hb = FALSE, !.via = "error",
              !.cause = cause, !.out = ErrorDelivered(q.out, cause)]

\* the chunks written for one choice: role, content if there is any, finish
ChoiceChunks(content) ==
    IF content = "text" THEN <<"role", "content", "finish">> ELSE <<"role", "finish">>

RECURSIVE ChunksOf(_)
ChunksOf(choices) ==
    IF choices = <<>> THEN <<>>
    ELSE ChoiceChunks(Head(choices)) \o ChunksOf(Tail(choices))

\* the SSE data events written after the early headers, which are also the
\* body kept for the dedup cache
StreamChunks(status, payload) ==
    IF status # 200 THEN <<"upstream_error", "done">>
    ELSE IF ~ payload.parsed THEN <<"raw", "done">>
    ELSE ChunksOf(payload.choices) \o <<"done">>

UpstreamBody(status) == <<"upstream_body">>

\* the payload that was re-chunked for q, if any
Rechunked(q, payload) == IF q.stream /\ q.up = 200 THEN payload ELSE NoPayload

\* the entry handed to deduplicator.complete
CompletedEntry(q, payload, t) ==
    IF q.stream THEN DedupEntry(200, "sse", StreamChunks(q.up, payload), t)
    ELSE DedupEntry(q.up, "upstream", UpstreamBody(q.up), t)

\* the response once the upstream body has been read and written
Finished(q, payload) ==
    [q EXCEPT !.pc = "done", !.via = "forwarded",
              !.completed = ~ (q.stream /\ q.up # 200),
              !.payload = Rechunked(q, payload),
              !.out = [@ EXCEPT !.body = @ \o (IF q.stream THEN StreamChunks(q.up, payload)
                                                ELSE UpstreamBody(q.up)),
                                !.ended = TRUE]]

\* deductEstimated runs unless the streaming error path returned early
DeductsAfter(q) == BodyEstimate(q.body) # Absent /\ ~ (q.stream /\ q.up # 200)

----------------------------------------------------------------------------
(* The clock *)

\* the clock advances by one millisecond or by a whole TTL
TickSteps == {1, DEFAULT_TTL_MS}

Tick(d) ==
    /\ ticks < MaxTicks
    /\ now' = now + d
    /\ ticks' = ticks + 1

----------------------------------------------------------------------------
(* The payment engine called directly: createPaymentFetch(key).fetch and   *)
(* .cache used by a caller outside the proxy                               *)

EngineCall(c, p, est) ==
    /\ pay[c].pc \in {"idle", "returned", "thrown"}
    /\ pay' = [pay EXCEPT ![c] = BeginCall(cache, p, est, now)]
    /\ cache' = CacheAfterGet(cache, p, now)
    /\ lastGet' = NoGet
    /\ UNCHANGED <<mon, calc>>
    /\ UNCHANGED <<now, ticks, lastTerms>>
    /\ UNCHANGED proxyVars

EngineFirstResponse(c, rsp) ==
    /\ pay[c].pc = "fetch1"
    /\ pay' = [pay EXCEPT ![c] = FirstResponseCall(pay[c], rsp)]
    /\ cache' = FirstResponseCache(cache, pay[c], rsp, now)
    /\ lastTerms' = TermsNoted(lastTerms, pay[c], rsp, now)
    /\ lastGet' = NoGet
    /\ UNCHANGED <<mon, calc>>
    /\ UNCHANGED <<now, ticks>>
    /\ UNCHANGED proxyVars

EngineSecondResponse(c, rsp) ==
    /\ pay[c].pc = "fetch2"
    /\ pay' = [pay EXCEPT ![c] = RetryOutcome(pay[c], rsp)]
    /\ lastGet' = NoGet
    /\ UNCHANGED <<mon, calc>>
    /\ UNCHANGED <<now, ticks, cache, lastTerms>>
    /\ UNCHANGED proxyVars

\* a pending fetch rejects with a network error
EngineFetchFails(c) ==
    /\ PayPending(c)
    /\ pay' = [pay EXCEPT ![c] = PayThrown(pay[c], "network")]
    /\ lastGet' = NoGet
    /\ UNCHANGED <<mon, calc>>
    /\ UNCHANGED <<now, ticks, cache, lastTerms>>
    /\ UNCHANGED proxyVars

\* cache.get(p) called directly
EngineCacheGet(p) ==
    /\ lastGet' = [kind |-> "get", path |-> p, at |-> now,
                   result |-> CacheGetResult(cache, p, now)]
    /\ cache' = CacheAfterGet(cache, p, now)
    /\ UNCHANGED <<now, ticks, pay, lastTerms, mon, calc>>
    /\ UNCHANGED proxyVars

EngineTick(d) ==
    /\ Tick(d)
    /\ lastGet' = NoGet
    /\ UNCHANGED <<mon, calc>>
    /\ UNCHANGED <<cache, pay, lastTerms>>
    /\ UNCHANGED proxyVars

vars == <<now, ticks, cache, pay, lastGet, lastTerms, req, inflight, settled, completed,
          cachedBalance, cachedAt, mon, calc>>

\* no function is being called on its own
NoCalc == [pc |-> "none"]

InitEngine ==
    /\ now = 0
    /\ ticks = 0
    /\ cache = [p \in Paths |-> NoEntry]
    /\ pay = [c \in Calls |-> IdlePay]
    /\ lastGet = NoGet
    /\ lastTerms = [p \in Paths |-> [kind |-> "none"]]
    /\ req = [r \in Reqs |-> IdleReq]
    /\ inflight = [k \in Bodies |-> 0]
    /\ settled = [r \in Reqs |-> NoEntry]
    /\ completed = [k \in Bodies |-> NoEntry]
    /\ cachedBalance = NullBalance
    /\ cachedAt = 0
    /\ mon = IdleMon
    /\ calc = NoCalc

NextEngine ==
    \/ \E c \in Calls, p \in Paths, est \in Estimates : EngineCall(c, p, est)
    \/ \E c \in Calls, rsp \in UpstreamResponses : EngineFirstResponse(c, rsp)
    \/ \E c \in Calls, rsp \in UpstreamResponses : EngineSecondResponse(c, rsp)
    \/ \E c \in Calls : EngineFetchFails(c)
    \/ \E p \in Paths : EngineCacheGet(p)
    \/ \E d \in TickSteps : EngineTick(d)

SpecEngine == InitEngine /\ [][NextEngine]_vars

----------------------------------------------------------------------------
(* The proxy: actions *)

\* what the upstream answers to a request the proxy forwards
ProxyUpstream ==
    { Response(200, NoHeader), Response(500, NoHeader), Response(402, NoHeader),
      Response(402, Challenge(<<OptA>>)) }

ProxyPath == "/v1/chat/completions"

\* requests with the same body that are being handled now
ActiveSame(b) == { o \in Reqs : Active(req[o]) /\ req[o].body = b }

\* the segment from the heartbeat up to the await of payFetch
StartPay(r, q, low) ==
    /\ req' = [req EXCEPT ![r] = StartedPay(q, low)]
    /\ pay' = [pay EXCEPT ![r] = BeginCall(cache, ProxyPath, BodyEstimate(q.body), now)]
    /\ cache' = CacheAfterGet(cache, ProxyPath, now)

\* the balance gate: which error it throws, if any
GateRejects(balance, cost) ==
    IF IsEmpty(balance) THEN "empty_wallet"
    ELSE IF ~ Sufficient(balance, cost) THEN "insufficient_funds"
    ELSE "none"

\* mutant of GateRelease: a rejected request leaves its marker registered
GateReleaseKeeps(inf, k) == inf

\* the gate's removeInflight before it throws
GateRelease(inf, k) == RemoveInflight(inf, k)

\* the balance gate on the balance q.info, and when it passes everything up
\* to the await of payFetch; inf is the marker map the gate finds
Gate(r, q, inf) ==
    LET verdict == GateRejects(q.info, BodyEstimate(q.body))
    IN  IF verdict # "none"
        THEN /\ req' = [req EXCEPT ![r] = Rejected(q, verdict)]
             /\ inflight' = GateRelease(inf, q.body)
             /\ UNCHANGED <<pay, cache>>
        ELSE /\ StartPay(r, q, IsLow(q.info))
             /\ inflight' = inf

\* the bodies on which the routing block throws after it has read the stream
\* flag (model "auto" with a message list the prompt extraction cannot walk)
RoutingThrows(b) == b = "b2"

\* the stream flag of the body sent upstream: the body is rebuilt with
\* stream false unless the routing block threw before the rebuild
ForwardedStream(b, s) == s /\ RoutingThrows(b)

\* a request arrives: body read, routed, dedup check, marker registered, and
\* on to the first await that waits for I/O
Arrive(r, b, s) ==
    LET q == [IdleReq EXCEPT !.body = b, !.stream = s, !.during = ActiveSame(b),
                             !.fwdStream = ForwardedStream(b, s)]
        hit == GetCached(completed, b, now)
    IN  /\ req[r].pc = "idle"
        /\ \A o \in Reqs : o < r => req[o].pc # "idle"
        /\ completed' = AfterGetCached(completed, b, now)
        /\ IF hit # NoEntry
           THEN /\ req' = [req EXCEPT ![r] = Served(q, hit, "cached")]
                /\ UNCHANGED <<inflight, pay, cache>>
           ELSE IF inflight[b] # 0
           THEN /\ req' = [req EXCEPT ![r] = [q EXCEPT !.pc = "await", !.waitOn = inflight[b]]]
                /\ UNCHANGED <<inflight, pay, cache>>
           ELSE IF BodyEstimate(b) = Absent
           THEN /\ StartPay(r, q, FALSE)
                /\ inflight' = MarkInflight(inflight, b, r)
           ELSE IF BalanceCacheValid(cachedBalance, cachedAt, now)
           THEN Gate(r, [q EXCEPT !.info = cachedBalance], MarkInflight(inflight, b, r))
           ELSE /\ req' = [req EXCEPT ![r] = [q EXCEPT !.pc = "rpc", !.readStart = now]]
                /\ inflight' = MarkInflight(inflight, b, r)
                /\ UNCHANGED <<pay, cache>>
        /\ lastGet' = NoGet
        /\ UNCHANGED <<mon, calc>>
        /\ UNCHANGED <<now, ticks, lastTerms, settled, cachedBalance, cachedAt>>

\* the in-flight signal a duplicate awaits has been resolved
AwaitResolved(r) ==
    /\ req[r].pc = "await"
    /\ settled[req[r].waitOn] # NoEntry
    /\ req' = [req EXCEPT ![r] = Served(@, settled[req[r].waitOn], "inflight")]
    /\ lastGet' = NoGet
    /\ UNCHANGED <<mon, calc>>
    /\ UNCHANGED <<now, ticks, cache, pay, lastTerms, inflight, settled, completed,
                   cachedBalance, cachedAt>>

\* fetchBalance resolved: checkBalance writes the cache with the time taken
\* before the read, then the gate runs
BalanceRead(r, outcome) ==
    /\ req[r].pc = "rpc"
    /\ cachedBalance' = FetchBalance(outcome)
    /\ cachedAt' = req[r].readStart
    /\ Gate(r, [req[r] EXCEPT !.info = FetchBalance(outcome), !.readFailed = ~ outcome.ok],
            inflight)
    /\ lastGet' = NoGet
    /\ UNCHANGED <<mon, calc>>
    /\ UNCHANGED <<now, ticks, lastTerms, settled, completed>>

\* mutant of Catch: the balance cache is left as it was
CatchKeepsCache(r, cause) ==
    /\ req' = [req EXCEPT ![r] = Failed(@, cause)]
    /\ inflight' = RemoveInflight(inflight, req[r].body)
    /\ UNCHANGED <<settled, completed, cachedBalance, cachedAt>>

\* the catch block: marker released, balance cache invalidated, error delivered
Catch(r, cause) ==
    /\ req' = [req EXCEPT ![r] = Failed(@, cause)]
    /\ inflight' = RemoveInflight(inflight, req[r].body)
    /\ cachedBalance' = NullBalance
    /\ cachedAt' = 0
    /\ UNCHANGED <<settled, completed>>

\* of a payFetch that is over, proxyRequest keeps the status (AfterPay) or the
\* error (Catch)
PayKept(nc) == IF nc.pc = "fetch2" THEN nc ELSE [nc EXCEPT !.result = NoResponse]

\* payFetch moved to nc: still fetching, returned a Response, or thrown
PayOutcome(r, nc) ==
    /\ pay' = [pay EXCEPT ![r] = PayKept(nc)]
    /\ IF nc.pc = "fetch2" THEN UNCHANGED proxyVars
       ELSE IF nc.pc = "returned"
       THEN /\ req' = [req EXCEPT ![r] = AfterPay(@, nc.result.status)]
            /\ UNCHANGED <<inflight, settled, completed, cachedBalance, cachedAt>>
       ELSE Catch(r, nc.cause)

\* the upstream answers the first request of r's payFetch
ProxyFirstResponse(r, rsp) ==
    /\ req[r].pc = "pay"
    /\ pay[r].pc = "fetch1"
    /\ PayOutcome(r, FirstResponseCall(pay[r], rsp))
    /\ cache' = FirstResponseCache(cache, pay[r], rsp, now)
    /\ lastTerms' = TermsNoted(lastTerms, pay[r], rsp, now)
    /\ lastGet' = NoGet
    /\ UNCHANGED <<mon, calc>>
    /\ UNCHANGED <<now, ticks>>

\* the upstream answers handle402's retry
ProxySecondResponse(r, rsp) ==
    /\ req[r].pc = "pay"
    /\ pay[r].pc = "fetch2"
    /\ PayOutcome(r, RetryOutcome(pay[r], rsp))
    /\ lastGet' = NoGet
    /\ UNCHANGED <<mon, calc>>
    /\ UNCHANGED <<now, ticks, cache, lastTerms>>

\* the pending upstream fetch rejects with a network error
ProxyFetchFails(r) ==
    /\ req[r].pc = "pay"
    /\ PayPending(r)
    /\ PayOutcome(r, PayThrown(pay[r], "network"))
    /\ lastGet' = NoGet
    /\ UNCHANGED <<mon, calc>>
    /\ UNCHANGED <<now, ticks, cache, lastTerms>>

\* the timeout timer fires: controller.abort() rejects the pending fetch
TimeoutFire(r) ==
    /\ req[r].pc = "pay"
    /\ req[r].timer
    /\ PayPending(r)
    /\ PayOutcome(r, PayThrown(pay[r], "timeout"))
    /\ lastGet' = NoGet
    /\ UNCHANGED <<mon, calc>>
    /\ UNCHANGED <<now, ticks, cache, lastTerms>>

\* the upstream body has been read: response ended, deduplicator.complete,
\* deductEstimated
BodyDone(r, payload) ==
    LET q == req[r]
        entry == CompletedEntry(q, payload, now)
    IN  /\ q.pc = "body"
        /\ Rechunked(q, payload) = NoPayload => payload = Unparsable
        /\ req' = [req EXCEPT ![r] = Finished(q, payload)]
        /\ settled' = CompleteSignals(settled, inflight, q.body, entry)
        /\ completed' = CompleteStore(completed, q.body, entry)
        /\ inflight' = RemoveInflight(inflight, q.body)
        /\ cachedBalance' = IF DeductsAfter(q)
                            THEN DeductEstimated(cachedBalance, BodyEstimate(q.body))
                            ELSE cachedBalance
        /\ lastGet' = NoGet
        /\ UNCHANGED <<mon, calc>>
        /\ UNCHANGED <<now, ticks, cache, pay, lastTerms, cachedAt>>

\* reading the upstream body rejects
BodyFails(r) ==
    /\ req[r].pc = "body"
    /\ Catch(r, "network")
    /\ lastGet' = NoGet
    /\ UNCHANGED <<mon, calc>>
    /\ UNCHANGED <<now, ticks, cache, pay, lastTerms>>

\* number of keep-alive comments the interval timer writes for one request
MaxBeats == 1

KeepAlives(body) == Cardinality({ i \in DOMAIN body : body[i] = "hb" })

\* keep-alives written by interval timers so far, over all requests: each
\* streaming response starts with one that no timer wrote
RECURSIVE Beats(_)
Beats(rs) ==
    IF rs = {} THEN 0
    ELSE LET r == CHOOSE x \in rs : TRUE
             k == KeepAlives(req[r].out.body)
         IN  (IF k > 0 THEN k - 1 ELSE 0) + Beats(rs \ {r})

\* the heartbeat interval fires: a keep-alive comment unless the response
\* has ended
Heartbeat(r) ==
    /\ req[r].hb
    /\ ~ req[r].out.ended
    /\ Beats(Reqs) < MaxBeats
    /\ req' = [req EXCEPT ![r] = [@ EXCEPT !.out = [@ EXCEPT !.body = Append(@, "hb")]]]
    /\ lastGet' = NoGet
    /\ UNCHANGED <<mon, calc>>
    /\ UNCHANGED <<now, ticks, cache, pay, lastTerms, inflight, settled, completed,
                   cachedBalance, cachedAt>>

\* the close handler: the marker goes unless the request had completed
CloseRelease(inf, q) ==
    IF q.hooked /\ ~ q.completed THEN RemoveInflight(inf, q.body) ELSE inf

\* the client disconnects while its request is being handled
ClientClose(r) ==
    /\ Active(req[r])
    /\ req[r].client = "here"
    /\ req' = [req EXCEPT ![r] = [@ EXCEPT !.client = "gone",
                                           !.hb = IF req[r].hooked THEN FALSE ELSE @]]
    /\ inflight' = CloseRelease(inflight, req[r])
    /\ lastGet' = NoGet
    /\ UNCHANGED <<mon, calc>>
    /\ UNCHANGED <<now, ticks, cache, pay, lastTerms, settled, completed,
                   cachedBalance, cachedAt>>

\* the response has ended and has not yet emitted 'close'
CloseDue(r) == req[r].pc = "done" /\ req[r].hooked /\ req[r].client = "here"

\* an ended response emits 'close': the same handler runs
ResponseClosed(r) ==
    /\ CloseDue(r)
    /\ req' = [req EXCEPT ![r] = [@ EXCEPT !.client = "gone"]]
    /\ inflight' = CloseRelease(inflight, req[r])
    /\ lastGet' = NoGet
    /\ UNCHANGED <<mon, calc>>
    /\ UNCHANGED <<now, ticks, cache, pay, lastTerms, settled, completed,
                   cachedBalance, cachedAt>>

\* the clock advances by a whole cache lifetime: an entry written before the
\* step is exactly CACHE_TTL_MS old after it, and older after a second one;
\* an ended response emits 'close' long before that
ProxyTickSteps == {CACHE_TTL_MS}

ProxyTick(d) ==
    /\ \A r \in Reqs : ~ CloseDue(r)
    /\ Tick(d)
    /\ lastGet' = NoGet
    /\ UNCHANGED <<mon, calc>>
    /\ UNCHANGED <<cache, pay, lastTerms>>
    /\ UNCHANGED proxyVars

Init ==
    /\ now = 0
    /\ ticks = 0
    /\ cache = [p \in Paths |-> NoEntry]
    /\ pay = [r \in Reqs |-> IdlePay]
    /\ lastGet = NoGet
    /\ lastTerms = [p \in Paths |-> [kind |-> "none"]]
    /\ req = [r \in Reqs |-> IdleReq]
    /\ inflight = [k \in Bodies |-> 0]
    /\ settled = [r \in Reqs |-> NoEntry]
    /\ completed = [k \in Bodies |-> NoEntry]
    /\ cachedBalance = NullBalance
    /\ cachedAt = 0
    /\ mon = IdleMon
    /\ calc = NoCalc

Next ==
    \/ \E r \in Reqs, b \in Bodies, s \in BOOLEAN : Arrive(r, b, s)
    \/ \E r \in Reqs : AwaitResolved(r)
    \/ \E r \in Reqs, o \in ReadOutcomes : BalanceRead(r, o)
    \/ \E r \in Reqs, rsp \in ProxyUpstream : ProxyFirstResponse(r, rsp)
    \/ \E r \in Reqs, rsp \in ProxyUpstream : ProxySecondResponse(r, rsp)
    \/ \E r \in Reqs : ProxyFetchFails(r)
    \/ \E r \in Reqs : TimeoutFire(r)
    \/ \E r \in Reqs, p \in Payloads : BodyDone(r, p)
    \/ \E r \in Reqs : Heartbeat(r)
    \/ \E r \in Reqs : BodyFails(r)
    \/ \E r \in Reqs : ClientClose(r)
    \/ \E r \in Reqs : ResponseClosed(r)
    \/ \E d \in ProxyTickSteps : ProxyTick(d)

Spec == Init /\ [][Next]_vars

\* one step of request r's handler that does not wait for the client: a
\* resolved signal is consumed, the balance read settles, the upstream
\* answers or fails, the timeout timer fires, the body read settles
Progress(r) ==
    \/ AwaitResolved(r)
    \/ \E o \in ReadOutcomes : BalanceRead(r, o)
    \/ \E rsp \in ProxyUpstream : ProxyFirstResponse(r, rsp)
    \/ \E rsp \in ProxyUpstream : ProxySecondResponse(r, rsp)
    \/ ProxyFetchFails(r)
    \/ TimeoutFire(r)
    \/ \E p \in Payloads : BodyDone(r, p)
    \/ BodyFails(r)

\* The event loop runs every continuation that is ready, an armed timer
\* fires, and every network read (balance RPC, upstream fetch, upstream body)
\* settles one way or the other.
Fairness == \A r \in Reqs : WF_vars(Progress(r))

LiveSpec == Init /\ [][Next]_vars /\ Fairness

----------------------------------------------------------------------------
(* The balance monitor called directly: checkBalance, deductEstimated and  *)
(* invalidate used by a caller outside the proxy                           *)

\* amounts a caller passes to deductEstimated
DeductAmounts == {2500, 6000}

MonTickSteps == {CACHE_TTL_MS}

monFrame == <<cache, pay, lastGet, lastTerms, req, inflight, settled, completed, calc>>

\* checkBalance() up to its first await: served from the cache, or the read
\* is started with the `now` captured before it
MonCheck(c) ==
    /\ mon.calls[c].pc # "reading"
    /\ mon' = [mon EXCEPT !.calls[c] =
                 IF BalanceCacheValid(cachedBalance, cachedAt, now)
                 THEN [IdleCheck EXCEPT !.pc = "returned", !.start = now,
                                        !.info = cachedBalance, !.age = now - cachedAt]
                 ELSE [IdleCheck EXCEPT !.pc = "reading", !.start = now]]
    /\ UNCHANGED <<now, ticks, cachedBalance, cachedAt>>
    /\ UNCHANGED monFrame

\* fetchBalance resolved: the cache is written with the captured `now`
MonRead(c, outcome) ==
    /\ mon.calls[c].pc = "reading"
    /\ cachedBalance' = FetchBalance(outcome)
    /\ cachedAt' = mon.calls[c].start
    /\ mon' = [mon EXCEPT !.calls[c] = [@ EXCEPT !.pc = "returned", !.read = TRUE,
                                                 !.info = FetchBalance(outcome)],
                          !.old = mon.calls[c].overtaken]
    /\ UNCHANGED <<now, ticks>>
    /\ UNCHANGED monFrame

\* deductEstimated(d)
MonDeduct(d) ==
    /\ cachedBalance' = DeductEstimated(cachedBalance, d)
    /\ mon' = [mon EXCEPT !.last = [op |-> "deduct", amount |-> d,
                                    before |-> cachedBalance, beforeAt |-> cachedAt,
                                    after |-> DeductEstimated(cachedBalance, d),
                                    afterAt |-> cachedAt, at |-> now]]
    /\ UNCHANGED <<now, ticks, cachedAt>>
    /\ UNCHANGED monFrame

\* invalidate(): every read under way is overtaken by it
MonInvalidate ==
    /\ cachedBalance' = NullBalance
    /\ cachedAt' = 0
    /\ mon' = [mon EXCEPT
                 !.calls = [c \in Checks |->
                              IF mon.calls[c].pc = "reading"
                              THEN [mon.calls[c] EXCEPT !.overtaken = TRUE]
                              ELSE mon.calls[c]],
                 !.last = [op |-> "invalidate", amount |-> 0,
                           before |-> cachedBalance, beforeAt |-> cachedAt,
                           after |-> NullBalance, afterAt |-> 0, at |-> now],
                 !.old = FALSE]
    /\ UNCHANGED <<now, ticks>>
    /\ UNCHANGED monFrame

MonTick(d) ==
    /\ Tick(d)
    /\ UNCHANGED <<cachedBalance, cachedAt, mon>>
    /\ UNCHANGED monFrame

NextMonitor ==
    \/ \E c \in Checks : MonCheck(c)
    \/ \E c \in Checks, o \in ReadOutcomes : MonRead(c, o)
    \/ \E d \in DeductAmounts : MonDeduct(d)
    \/ MonInvalidate
    \/ \E d \in MonTickSteps : MonTick(d)

SpecMonitor == Init /\ [][NextMonitor]_vars

----------------------------------------------------------------------------
(* Functions called on their own: the argument is drawn by the initial     *)
(* state, the one action returns the result                                *)

\* everything but calc, as constructed
Quiet ==
    /\ now = 0
    /\ ticks = 0
    /\ cache = [p \in Paths |-> NoEntry]
    /\ pay = [r \in Reqs |-> IdlePay]
    /\ lastGet = NoGet
    /\ lastTerms = [p \in Paths |-> [kind |-> "none"]]
    /\ req = [r \in Reqs |-> IdleReq]
    /\ inflight = [k \in Bodies |-> 0]
    /\ settled = [r \in Reqs |-> NoEntry]
    /\ completed = [k \in Bodies |-> NoEntry]
    /\ cachedBalance = NullBalance
    /\ cachedAt = 0
    /\ mon = IdleMon

world == <<now, ticks, cache, pay, lastGet, lastTerms, req, inflight, settled, completed,
           cachedBalance, cachedAt, mon>>

Called(op, arg) == [pc |-> "called", op |-> op, arg |-> arg]
Returned(c, result) == [pc |-> "returned", op |-> c.op, arg |-> c.arg, result |-> result]

----------------------------------------------------------------------------
(* The routing block of proxyRequest: strings are sequences of characters  *)

AUTO_MODEL == <<"b", "l", "o", "c", "k", "r", "u", "n", "/", "a", "u", "t", "o">>
AUTO_MODEL_SHORT == <<"a", "u", "t", "o">>

WhiteSpace == {" ", "\t"}

\* String.prototype.trim
RECURSIVE TrimStart(_)
TrimStart(str) ==
    IF str # <<>> /\ Head(str) \in WhiteSpace THEN TrimStart(Tail(str)) ELSE str

RECURSIVE TrimEnd(_)
TrimEnd(str) ==
    IF str # <<>> /\ str[Len(str)] \in WhiteSpace
    THEN TrimEnd(SubSeq(str, 1, Len(str) - 1)) ELSE str

Trim(str) == TrimEnd(TrimStart(str))

LowerOf(ch) ==
    CASE ch = "A" -> "a" [] ch = "B" -> "b" [] ch = "O" -> "o"
      [] ch = "T" -> "t" [] ch = "U" -> "u" [] OTHER -> ch

\* mutant of ToLowerCase: the case is kept
ToLowerCaseKept(str) == str

\* String.prototype.toLowerCase
ToLowerCase(str) == [i \in DOMAIN str |-> LowerOf(str[i])]

\* a model field that is a string, and one that is not (a number, or absent)
ModelId(chars) == [isString |-> TRUE, chars |-> chars]
NotAString == [isString |-> FALSE, chars |-> <<>>]

\* typeof parsed.model === "string" ? parsed.model.trim().toLowerCase() : ""
NormalizedModel(model) ==
    IF model.isString THEN ToLowerCase(Trim(model.chars)) ELSE <<>>

IsAutoModel(model) ==
    \/ NormalizedModel(model) = ToLowerCase(AUTO_MODEL)
    \/ NormalizedModel(model) = ToLowerCase(AUTO_MODEL_SHORT)

\* routingDecision.model
DecisionModel == ModelId(<<"m">>)

\* The block from the isChatCompletion test to the rebuilt body: whether the
\* routing branch was entered, and the model field of the body sent on.
\* chat: the url names /chat/completions and the body is not empty; parses:
\* JSON.parse accepts the body; walks: prompt extraction and route() return.
RoutingBlock(arg) ==
    IF ~ (arg.chat /\ arg.parses)
    THEN [entered |-> FALSE, model |-> arg.model]
    ELSE IF ~ IsAutoModel(arg.model)
    THEN [entered |-> FALSE, model |-> arg.model]
    ELSE IF arg.walks
    THEN [entered |-> TRUE, model |-> DecisionModel]
    ELSE [entered |-> TRUE, model |-> arg.model]

\* model names as received: a spelling between two paddings
Pads == {<<>>, <<" ">>, <<"\t">>}

AutoCores ==
    { AUTO_MODEL_SHORT, <<"A", "U", "T", "O">>, <<"A", "u", "t", "o">>, AUTO_MODEL,
      <<"B", "l", "o", "c", "k", "r", "u", "n", "/", "A", "u", "t", "o">> }

OtherCores ==
    { <<"a", " ", "u", "t", "o">>, <<"a", "u", "t", "o", "s">>, <<"g", "p", "t">>,
      <<"b", "l", "o", "c", "k", "r", "u", "n", "/">>, <<>> }

Spellings(cores) == { l \o c \o r : l \in Pads, c \in cores, r \in Pads }

RoutingArgs ==
    [chat : BOOLEAN, parses : BOOLEAN, walks : BOOLEAN,
     model : {ModelId(chars) : chars \in Spellings(AutoCores \cup OtherCores)}
                 \cup {NotAString}]

InitRouting ==
    /\ Quiet
    /\ calc \in {Called("routing", arg) : arg \in RoutingArgs}

RouteRequest ==
    /\ calc.pc = "called"
    /\ calc.op = "routing"
    /\ calc' = Returned(calc, RoutingBlock(calc.arg))
    /\ UNCHANGED world

NextRouting == RouteRequest

SpecRouting == InitRouting /\ [][NextRouting]_vars

----------------------------------------------------------------------------
(* stripThinkingTokens and the paths that forward upstream content.        *)
(* Content is a sequence of pieces: "t" text; "kb", "ke", "kt" a Kimi      *)
(* token holding begin, holding end, holding neither; "to", "tc" an        *)
(* opening and a closing think tag; "to_l", "to_r" the two halves of an    *)
(* opening think tag, which read as the tag once they are adjacent         *)

\* longest upstream content drawn
MaxContent == 3

Pieces == {"t", "kb", "ke", "kt", "to", "tc", "to_l", "to_r"}
KimiTokens == {"kb", "ke", "kt"}
ThinkTags == {"to", "tc"}

\* the string as a regular expression reads it: adjacent halves are one tag
RECURSIVE Joined(_)
Joined(str) ==
    IF Len(str) < 2 THEN str
    ELSE IF str[1] = "to_l" /\ str[2] = "to_r"
    THEN <<"to">> \o Joined(SubSeq(str, 3, Len(str)))
    ELSE <<str[1]>> \o Joined(Tail(str))

\* index of the first piece in closers after position i, 0 if none
RECURSIVE FirstAfter(_, _, _)
FirstAfter(str, i, closers) ==
    IF i >= Len(str) THEN 0
    ELSE IF str[i + 1] \in closers THEN i + 1
    ELSE FirstAfter(str, i + 1, closers)

\* str.replace(/open[\s\S]*?close/g, ""): leftmost matches, shortest first,
\* in one pass over the string
RECURSIVE RemoveBlocks(_, _, _)
RemoveBlocks(str, opener, closers) ==
    IF str = <<>> THEN <<>>
    ELSE IF Head(str) = opener /\ FirstAfter(str, 1, closers) # 0
    THEN RemoveBlocks(SubSeq(str, FirstAfter(str, 1, closers) + 1, Len(str)), opener, closers)
    ELSE <<Head(str)>> \o RemoveBlocks(Tail(str), opener, closers)

\* str.replace(/token/g, "")
RemoveEach(str, tokens) == SelectSeq(str, LAMBDA x : x \notin tokens)

\* stripThinkingTokens: Kimi blocks, Kimi tokens, think blocks, think tags
StripThinkingTokens(content) ==
    LET s1 == RemoveBlocks(Joined(content), "kb", {"ke"})
        s2 == RemoveEach(Joined(s1), KimiTokens)
        s3 == RemoveBlocks(Joined(s2), "to", {"tc"})
        s4 == RemoveEach(Joined(s3), ThinkTags)
    IN  Joined(s4)

\* The content the caller is sent for upstream content c.  path "stream":
\* the re-chunked 200 body, stripped when the body parsed and sent raw when it
\* did not; path "json": the non-streaming body, written as it is read.  A
\* replay sends what was written and stored.
ForwardedContent(arg) ==
    IF arg.path = "stream" /\ arg.parsed
    THEN StripThinkingTokens(arg.content)
    ELSE Joined(arg.content)

RECURSIVE SeqsUpTo(_, _)
SeqsUpTo(S, n) ==
    IF n = 0 THEN {<<>>}
    ELSE SeqsUpTo(S, n - 1) \cup {Append(q, x) : q \in SeqsUpTo(S, n - 1), x \in S}

ForwardArgs ==
    [path : {"stream", "json"}, parsed : BOOLEAN, replay : BOOLEAN,
     content : SeqsUpTo(Pieces, MaxContent)]

InitForward ==
    /\ Quiet
    /\ calc \in {Called("forward", arg) : arg \in ForwardArgs}

ForwardContent ==
    /\ calc.pc = "called"
    /\ calc.op = "forward"
    /\ calc' = Returned(calc, ForwardedContent(calc.arg))
    /\ UNCHANGED world

NextForward == ForwardContent

SpecForward == InitForward /\ [][NextForward]_vars

-----------------------------------------------------------------------------
(* BalanceMonitor's pure functions: formatUSDC and buildInfo.               *)

MICROS_PER_DOLLAR == 1000000
FRACTION_DIGITS == 2
SIGNIFICAND_BITS == 53

RECURSIVE Pow(_, _)
Pow(base, n) == IF n = 0 THEN 1 ELSE base * Pow(base, n - 1)

RECURSIVE BitLength(_)
BitLength(n) == IF n = 0 THEN 0 ELSE 1 + BitLength(n \div 2)

(* The division of two integers in double precision, by binary long        *)
(* division: r is the remainder after the bits produced so far, need the    *)
(* number of significand bits still to produce, lsb the last bit produced.  *)
(* Once the significand is full the next bit and the remainder behind it    *)
(* decide the rounding (to nearest, ties to even).  The result says where   *)
(* the double lies relative to the exact quotient.                          *)
RECURSIVE RoundedSide(_, _, _, _)
RoundedSide(r, d, need, lsb) ==
    IF r = 0 THEN "exact"
    ELSE LET bit == IF 2 * r >= d THEN 1 ELSE 0
             rem == 2 * r - bit * d
         IN  IF need > 0 THEN RoundedSide(rem, d, need - 1, bit)
             ELSE IF bit = 0 THEN "below"
             ELSE IF rem # 0 THEN "above"
             ELSE IF lsb = 1 THEN "above"
             ELSE "below"

(* A quotient below one: the zero bits in front of the first one bit are    *)
(* not part of the significand.                                             *)
RECURSIVE NormalisedSide(_, _)
NormalisedSide(r, d) ==
    IF 2 * r >= d THEN RoundedSide(2 * r - d, d, SIGNIFICAND_BITS - 1, 1)
    ELSE NormalisedSide(2 * r, d)

(* Number(amountMicros) / 1_000_000 for 0 <= amountMicros < 2^31 (Number()  *)
(* is exact below 2^53).                                                    *)
DoubleSide(a, d) ==
    IF a % d = 0 THEN "exact"
    ELSE IF a \div d = 0 THEN NormalisedSide(a % d, d)
    ELSE RoundedSide(a % d, d, SIGNIFICAND_BITS - BitLength(a \div d), (a \div d) % 2)

(* A variant of toFixed that cuts the digits off instead of rounding.       *)
ToFixedTruncated(a, d, digits) == a \div (d \div Pow(10, digits))

(* Number.prototype.toFixed(digits) of the double a / d, as the integer n   *)
(* for which n / 10^digits is closest to the double's exact value, the      *)
(* larger n when two are equally close.  unit is one last digit in units of *)
(* 1/d.  Off a decimal tie the double's error (below 2^-52 of the value) is *)
(* far smaller than the distance to the tie (at least 1/d), so the exact    *)
(* quotient decides; at a decimal tie the side of the double decides.       *)
ToFixed(a, d, digits) ==
    LET unit == d \div Pow(10, digits)
        half == unit \div 2
    IN  IF a % unit # half THEN (a + half) \div unit
        ELSE IF DoubleSide(a, d) = "below" THEN a \div unit
        ELSE a \div unit + 1

DecimalDigits == <<"0", "1", "2", "3", "4", "5", "6", "7", "8", "9">>

RECURSIVE Decimal(_)
Decimal(n) ==
    IF n < 10 THEN <<DecimalDigits[n + 1]>>
    ELSE Decimal(n \div 10) \o <<DecimalDigits[(n % 10) + 1]>>

RECURSIVE Padded(_, _)
Padded(str, width) == IF Len(str) >= width THEN str ELSE Padded(<<"0">> \o str, width)

(* The string toFixed returns for n last digits.                            *)
FixedString(n, digits) ==
    Decimal(n \div Pow(10, digits)) \o <<".">> \o Padded(Decimal(n % Pow(10, digits)), digits)

formatUSDC(amountMicros) ==
    <<"$">> \o FixedString(ToFixed(amountMicros, MICROS_PER_DOLLAR, FRACTION_DIGITS),
                           FRACTION_DIGITS)

buildInfo(balance) ==
    [ balance    |-> balance,
      balanceUSD |-> formatUSDC(balance),
      isLow      |-> IsLow(balance),
      isEmpty    |-> IsEmpty(balance) ]

(* Balances around both thresholds.                                         *)
InfoBalances == (0 .. 120) \cup (999990 .. 1000010)

(* Amounts around cent boundaries, ordered pairs of them.                   *)
FormatAmounts ==
    { 0, 100, 4999, 5000, 5001, 9999, 10000, 14999, 15000, 15001, 25000, 45000,
      125000, 995000, 1005000, 12345678 }

FormatPairs == { p \in FormatAmounts \X FormatAmounts : p[1] <= p[2] }

InitBalance ==
    /\ Quiet
    /\ calc \in {Called("buildInfo", b) : b \in InfoBalances}
                   \cup {Called("formatUSDC", p) : p \in FormatPairs}

BuildInfoCall ==
    /\ calc.pc = "called"
    /\ calc.op = "buildInfo"
    /\ calc' = Returned(calc, buildInfo(calc.arg))
    /\ UNCHANGED world

FormatCall ==
    /\ calc.pc = "called"
    /\ calc.op = "formatUSDC"
    /\ calc' = Returned(calc, <<formatUSDC(calc.arg[1]), formatUSDC(calc.arg[2])>>)
    /\ UNCHANGED world

NextBalance == BuildInfoCall \/ FormatCall

SpecBalance == InitBalance /\ [][NextBalance]_vars

-----------------------------------------------------------------------------
(* The authorizations the engine signs, and their nonces (x402.ts).         *)

MaxAuths == 3
NonceBytes == 2

\* the values a byte of the random source takes here: both one-digit and
\* two-digit ones in base 16
ByteValues == {1, 17}

RandomBytes == [1..NonceBytes -> ByteValues]

HexDigits == <<"0", "1", "2", "3", "4", "5", "6", "7", "8", "9", "a", "b", "c", "d", "e", "f">>

\* b.toString(16)
ToString16(b) ==
    IF b < 16 THEN <<HexDigits[b + 1]>>
    ELSE <<HexDigits[(b \div 16) + 1], HexDigits[(b % 16) + 1]>>

RECURSIVE JoinedHex(_, _)
JoinedHex(bytes, width) ==
    IF bytes = <<>> THEN <<>>
    ELSE Padded(ToString16(bytes[1]), width) \o JoinedHex(Tail(bytes), width)

\* a variant of createNonce without padStart
createNonceUnpadded(bytes) == <<"0", "x">> \o JoinedHex(bytes, 0)

\* createNonce(), given the bytes crypto.getRandomValues filled in
createNonce(bytes) == <<"0", "x">> \o JoinedHex(bytes, 2)

\* createPaymentPayload(): one createNonce() of its own for the authorization
createPaymentPayload(c, attempt, bytes) ==
    [call |-> c, attempt |-> attempt, nonce |-> createNonce(bytes)]

\* The engine seen as a signer: the authorizations produced so far, the bytes
\* the random source has returned so far, and how far each payFetch call is.
Signing(auths, drawn, phase) ==
    [pc |-> "signing", auths |-> auths, drawn |-> drawn, phase |-> phase]

\* crypto.getRandomValues: 32 cryptographically random bytes are taken to be
\* bytes the source has not returned before
Fresh(bytes) == bytes \in RandomBytes \ calc.drawn

Signs(c, attempt, bytes, phase) ==
    calc' = Signing(Append(calc.auths, createPaymentPayload(c, attempt, bytes)),
                    calc.drawn \cup {bytes},
                    [calc.phase EXCEPT ![c] = phase])

InitNonce ==
    /\ Quiet
    /\ calc = Signing(<<>>, {}, [c \in Calls |-> "idle"])

\* payFetch's pre-auth branch signs the first request
SignPreAuth(c, bytes) ==
    /\ calc.phase[c] = "idle"
    /\ Len(calc.auths) < MaxAuths
    /\ Fresh(bytes)
    /\ Signs(c, "preauth", bytes, "fetch1")
    /\ UNCHANGED world

\* handle402 signs the retry: after an unsigned first request, or after a
\* pre-signed one was rejected with a challenge
SignChallenge(c, bytes) ==
    /\ calc.phase[c] \in {"idle", "fetch1"}
    /\ Len(calc.auths) < MaxAuths
    /\ Fresh(bytes)
    /\ Signs(c, "challenge", bytes, "fetch2")
    /\ UNCHANGED world

\* the payFetch call is over
SignedCallEnds(c) ==
    /\ calc.phase[c] \in {"fetch1", "fetch2"}
    /\ calc' = [calc EXCEPT !.phase[c] = "idle"]
    /\ UNCHANGED world

NextNonce ==
    \/ \E c \in Calls, bytes \in RandomBytes : SignPreAuth(c, bytes)
    \/ \E c \in Calls, bytes \in RandomBytes : SignChallenge(c, bytes)
    \/ \E c \in Calls : SignedCallEnds(c)

SpecNonce == InitNonce /\ [][NextNonce]_vars

-----------------------------------------------------------------------------
(* The weighted-scoring router: route(prompt, systemPrompt, maxTokens,      *)
(* options).  Confidence and weights are in hundredths.                     *)

MaxWords == 3
OVERRIDE_MATCHES == 2
OVERRIDE_CONFIDENCE == 97

\* what a prompt is made of here: keywords of four dimensions in two
\* spellings, and a word no dimension knows
Vocabulary ==
    {"prove", "PROVE", "theorem", "step by step", "function", "what is", "story", "hello"}

\* case-insensitive matching
LowerWord(w) == IF w = "PROVE" THEN "prove" ELSE w

\* the dimensions a text of this vocabulary can match: weight and keywords
Dimensions ==
    { [name |-> "reasoning", weight |-> 18, keywords |-> {"prove", "theorem", "step by step"}],
      [name |-> "code",      weight |-> 15, keywords |-> {"function"}],
      [name |-> "simple",    weight |-> 12, keywords |-> {"what is"}],
      [name |-> "creative",  weight |-> 5,  keywords |-> {"story"}] }

DimensionNamed(name) == CHOOSE d \in Dimensions : d.name = name

\* the keywords of a dimension found in the text, each counted once
Matches(text, d) == {LowerWord(text[i]) : i \in 1..Len(text)} \cap d.keywords

RECURSIVE SumOver(_, _)
SumOver(ds, text) ==
    IF ds = {} THEN 0
    ELSE LET d == CHOOSE x \in ds : TRUE
         IN  (IF Matches(text, d) # {} THEN d.weight ELSE 0) + SumOver(ds \ {d}, text)

WeightedSum(text) == SumOver(Dimensions, text)

\* the logistic function of steepness * sum, tabulated in hundredths
Sigmoid(x) ==
    IF x <= 0 THEN 50
    ELSE IF x < 50 THEN 56
    ELSE IF x < 100 THEN 68
    ELSE IF x < 150 THEN 78
    ELSE IF x < 200 THEN 85
    ELSE IF x < 300 THEN 92
    ELSE IF x < 400 THEN 97
    ELSE IF x < 500 THEN 99
    ELSE 100

Calibrated(sum, config) == Sigmoid(config.steepness * sum)

\* confidence to tier; below the lowest threshold the tier is MEDIUM
TierOf(confidence, config) ==
    IF confidence >= config.thresholds[3] THEN "REASONING"
    ELSE IF confidence >= config.thresholds[2] THEN "COMPLEX"
    ELSE "MEDIUM"

PrimaryModel(tier) ==
    CASE tier = "SIMPLE" -> "gemini-2.5-flash"
      [] tier = "MEDIUM" -> "deepseek-chat"
      [] tier = "COMPLEX" -> "claude-opus-4"
      [] tier = "REASONING" -> "deepseek-reasoner"

\* cost per million tokens, in cents
TierCost(tier) ==
    CASE tier = "SIMPLE" -> 60
      [] tier = "MEDIUM" -> 42
      [] tier = "COMPLEX" -> 7500
      [] tier = "REASONING" -> 42

Decision(tier, confidence, maxTokens) ==
    [model |-> PrimaryModel(tier), tier |-> tier, confidence |-> confidence,
     method |-> "rules", costEstimate |-> TierCost(tier) * maxTokens]

\* a variant of the override that needs three markers
OverridesAtThree(text) ==
    Cardinality(Matches(text, DimensionNamed("reasoning"))) >= OVERRIDE_MATCHES + 1

\* the special rule: two or more distinct reasoning markers
Overrides(text) ==
    Cardinality(Matches(text, DimensionNamed("reasoning"))) >= OVERRIDE_MATCHES

\* the text scored: system prompt (empty when there is none) and prompt together
CombinedText(arg) == arg.system \o arg.prompt

\* route(); served is the number of calls the router has answered before,
\* which it keeps no trace of
route(arg, served) ==
    LET text == CombinedText(arg)
        confidence == Calibrated(WeightedSum(text), arg.config)
    IN  IF Overrides(text)
        THEN Decision("REASONING", OVERRIDE_CONFIDENCE, arg.maxTokens)
        ELSE Decision(TierOf(confidence, arg.config), confidence, arg.maxTokens)

RouterConfigs ==
    { [steepness |-> 4, thresholds |-> <<55, 70, 90>>],
      [steepness |-> 12, thresholds |-> <<60, 80, 99>>] }

RouteArgs ==
    [ prompt    : SeqsUpTo(Vocabulary, MaxWords),
      system    : {<<>>, <<"theorem">>, <<"function">>},
      maxTokens : {1, 4096},
      config    : RouterConfigs ]

InitRoute ==
    /\ Quiet
    /\ calc \in {Called("route", arg) : arg \in RouteArgs}

\* the first call
RouteCall ==
    /\ calc.pc = "called"
    /\ calc.op = "route"
    /\ calc' = Returned(calc, <<route(calc.arg, 0)>>)
    /\ UNCHANGED world

\* the same arguments again, after the router has answered calls
RouteAgain ==
    /\ calc.pc = "returned"
    /\ calc.op = "route"
    /\ Len(calc.result) = 1
    /\ calc' = [calc EXCEPT !.result = Append(@, route(calc.arg, 1))]
    /\ UNCHANGED world

NextRoute == RouteCall \/ RouteAgain

SpecRoute == InitRoute /\ [][NextRoute]_vars

-----------------------------------------------------------------------------
(* The payment-parameter cache with several paths, keyed as payFetch keys   *)
(* it: new URL(url).pathname.                                               *)

MaxCacheOps == 3

Origin == "https://api"
PathTokens == {"/v1", "/chat"}
QueryTokens == {"?a=1", "?a=2"}
FragmentTokens == {"#f"}

\* a URL string, cut into origin, path segments, query and fragment
UrlString(u) == <<Origin>> \o u.path \o u.rest

\* requests: a URL and a set of headers
CacheRequests ==
    [ path    : {<<>>, <<"/v1">>, <<"/v1", "/chat">>},
      rest    : {<<>>, <<"?a=1">>, <<"?a=2">>, <<"#f">>},
      headers : {"h1", "h2"} ]

\* the path segments in front of the query and the fragment
RECURSIVE PathPrefix(_)
PathPrefix(tokens) ==
    IF tokens = <<>> THEN <<>>
    ELSE IF Head(tokens) \in QueryTokens \cup FragmentTokens THEN <<>>
    ELSE <<Head(tokens)>> \o PathPrefix(Tail(tokens))

\* new URL(url).pathname: an empty path is "/"
EndpointPath(url) ==
    LET p == PathPrefix(Tail(url)) IN IF p = <<>> THEN <<"/">> ELSE p

CacheKeys == { EndpointPath(UrlString(u)) : u \in CacheRequests }

\* a variant of invalidate that empties the whole map
CacheInvalidateClears(c, p) == [q \in DOMAIN c |-> NoEntry]

\* invalidate(endpointPath)
CacheInvalidate(c, p) == [c EXCEPT ![p] = NoEntry]

CacheState(map, clock, ops, last) ==
    [pc |-> "cache", map |-> map, clock |-> clock, ops |-> ops, last |-> last]

InitCache ==
    /\ Quiet
    /\ calc = CacheState([k \in CacheKeys |-> NoEntry], 0, 0, [op |-> "none"])

\* payFetch looks the request's path up
CacheLookup(u) ==
    LET key == EndpointPath(UrlString(u))
    IN  /\ calc.pc = "cache"
        /\ calc.ops < MaxCacheOps
        /\ calc' = CacheState(CacheAfterGet(calc.map, key, calc.clock), calc.clock,
                              calc.ops + 1,
                              [op |-> "get", request |-> u,
                               result |-> CacheGetResult(calc.map, key, calc.clock)])
        /\ UNCHANGED world

\* handle402 caches the challenge's first option under the request's path
CacheStore(u, option) ==
    LET key == EndpointPath(UrlString(u))
    IN  /\ calc.pc = "cache"
        /\ calc.ops < MaxCacheOps
        /\ calc' = CacheState(CacheSet(calc.map, key, option, calc.clock), calc.clock,
                              calc.ops + 1,
                              [op |-> "set", request |-> u, option |-> option])
        /\ UNCHANGED world

\* cache.invalidate(path)
CacheDrop(u) ==
    LET key == EndpointPath(UrlString(u))
    IN  /\ calc.pc = "cache"
        /\ calc.ops < MaxCacheOps
        /\ calc' = CacheState(CacheInvalidate(calc.map, key), calc.clock, calc.ops + 1,
                              [op |-> "invalidate", request |-> u])
        /\ UNCHANGED world

\* time passes: a millisecond, or a whole TTL
CacheClock(d) ==
    /\ calc.pc = "cache"
    /\ calc.ops < MaxCacheOps
    /\ calc' = CacheState(calc.map, calc.clock + d, calc.ops + 1, [op |-> "tick"])
    /\ UNCHANGED world

NextCache ==
    \/ \E u \in CacheRequests : CacheLookup(u)
    \/ \E u \in CacheRequests, o \in {OptA, OptB} : CacheStore(u, o)
    \/ \E u \in CacheRequests : CacheDrop(u)
    \/ \E d \in TickSteps : CacheClock(d)

SpecCache == InitCache /\ [][NextCache]_vars

----------------------------------------------------------------------------
(* Claims about the payment engine and the payment-parameter cache,        *)
(* checked under SpecEngine                                                *)

\* call c takes a step out of state "from" in this transition
Leaves(c, from) == pay[c].pc = from /\ pay'[c] # pay[c]

\* C5: one payFetch call sends the request upstream at most twice; the answer
\* to the retry that carries the challenge's authorization, a 402 included,
\* ends the call: it is returned as a Response, nothing more is signed or sent,
\* and the call rejects after the retry only when that fetch itself rejected.
C5_AtMostTwoSends ==
    /\ [](\A c \in DOMAIN pay : Len(pay[c].sent) <= 2 /\ pay[c].sends <= 2)
    /\ [][\A c \in DOMAIN pay : Leaves(c, "fetch2") =>
            /\ pay'[c].pc \in {"returned", "thrown"}
            /\ pay'[c].sends = 2
            /\ pay'[c].pc = "returned" => pay'[c].result \in UpstreamResponses
            /\ pay'[c].pc = "thrown" => pay'[c].cause = "network"
            /\ cache' = cache]_vars

\* a 402 that still carries a challenge has been surfaced by a call that sent twice
C5_Witness ==
    \E c \in Calls : /\ pay[c].pc = "returned"
                    /\ pay[c].sends = 2
                    /\ pay[c].result.status = 402
                    /\ pay[c].result.hdr.kind = "challenge"

\* the terms of a challenge option, as the cache stores them at time t
TermsOf(option, t) ==
    [kind |-> "entry", payTo |-> option.payTo, asset |-> option.asset,
     scheme |-> option.scheme, network |-> option.network, cachedAt |-> t]

\* a 402 response whose challenge decodes to a first option with an amount
ValidChallenge(rsp) ==
    /\ rsp.status = 402
    /\ rsp.hdr.kind = "challenge"
    /\ ~ Handle402Throws(rsp.hdr)

C7_MissingHeaderAlwaysFatal ==
    \A c \in DOMAIN pay :
        (pay[c].pc = "returned" /\ pay[c].result.status = 402
         /\ pay[c].result.hdr = NoHeader)
        => pay[c].sends = 2

\* C7 (amended): on the plain first-contact path a 402 without a challenge
\* header makes payFetch throw; a call hands a header-less 402 of its first
\* attempt back only when that attempt was pre-signed, and a call that throws
\* "missing header" was never pre-signed.
C7_MissingHeaderFatalUnlessPreAuth ==
    \A c \in DOMAIN pay :
        /\ (pay[c].pc = "returned" /\ pay[c].result.status = 402
            /\ pay[c].result.hdr = NoHeader /\ pay[c].sends = 1)
           => pay[c].preAuthed
        /\ (pay[c].pc = "thrown" /\ pay[c].cause = "noheader")
           => (~ pay[c].preAuthed /\ pay[c].sends = 1)

\* a pre-signed first attempt was answered 402 without a challenge header and
\* the call handed that response back
C7_Witness ==
    \E c \in DOMAIN pay : /\ pay[c].pc = "returned" /\ pay[c].preAuthed
                           /\ pay[c].sends = 1 /\ pay[c].result = Response(402, NoHeader)

\* C8: once handle402 has cached a challenge's first option for path p, get(p)
\* serves that option's payee, asset, scheme and network for as long as the
\* entry is not older than the TTL (a later challenge replaces lastTerms[p]
\* too); and a payFetch to p that starts in that time with an estimate sends
\* its first request signed to that payee.
C8_TermsServedUntilExpiry ==
    /\ [](\A p \in Paths :
            (lastTerms[p].kind = "terms" /\ now - lastTerms[p].at <= DEFAULT_TTL_MS)
            => CacheGetResult(cache, p, now) = TermsOf(lastTerms[p].option, lastTerms[p].at))
    /\ [][\A c \in DOMAIN pay :
            (pay[c].pc # "fetch1" /\ pay'[c].pc = "fetch1" /\ pay'[c].est # Absent
             /\ lastTerms[pay'[c].path].kind = "terms"
             /\ now - lastTerms[pay'[c].path].at <= DEFAULT_TTL_MS)
            => pay'[c].sent = <<Signed(lastTerms[pay'[c].path].option.payTo, pay'[c].est)>>]_vars

\* a call started a full TTL after the challenge and was pre-signed to its payee
C8_Witness ==
    \E c \in Calls :
        /\ pay[c].pc = "fetch1"
        /\ lastTerms[pay[c].path].kind = "terms"
        /\ now - lastTerms[pay[c].path].at = DEFAULT_TTL_MS
        /\ pay[c].sent = <<Signed(lastTerms[pay[c].path].option.payTo, pay[c].est)>>

\* C9: get(path) never serves an entry older than the TTL; when it reports
\* absence the entry is gone from the map, so later gets are absent too until
\* handle402 sets the path again.
C9_NeverServedStale ==
    /\ [](lastGet.kind = "get" =>
            /\ lastGet.result # NoEntry
               => lastGet.at - lastGet.result.cachedAt <= DEFAULT_TTL_MS
            /\ lastGet.result = NoEntry => cache[lastGet.path] = NoEntry)
    /\ [](\A p \in Paths : cache[p] = NoEntry => CacheGetResult(cache, p, now) = NoEntry)
    /\ [][\A p \in Paths :
            (cache[p] = NoEntry /\ cache'[p] # NoEntry)
            => \E c \in Calls : Leaves(c, "fetch1") /\ pay'[c].pc = "fetch2"]_vars

\* a get has just found an entry older than the TTL and reported absence
C9_Witness ==
    /\ lastGet.kind = "get"
    /\ lastGet.result = NoEntry
    /\ lastTerms[lastGet.path].kind = "terms"
    /\ lastGet.at - lastTerms[lastGet.path].at > DEFAULT_TTL_MS

----------------------------------------------------------------------------
(* Claims about deduplication and the request life cycle, checked under    *)
(* Spec                                                                    *)

Done(r) == req[r].pc = "done"

\* r2 arrived with r1's body while r1 was being handled
Concurrent(r1, r2) == r1 # r2 /\ req[r1].body = req[r2].body /\ r1 \in req[r2].during

\* C1: of two requests with the same body of which the second arrived while
\* the first was being handled, exactly one called payFetch, and once both
\* have ended both callers were sent the same status, headers and body.
C1_OneCallSameResponse ==
    \A r1, r2 \in Reqs :
        Concurrent(r1, r2) =>
            /\ req[r1].fetches + req[r2].fetches <= 1
            /\ (Done(r1) /\ Done(r2)) =>
                  /\ req[r1].fetches + req[r2].fetches = 1
                  /\ req[r1].out = req[r2].out

\* C2: payFetch is never started for a body while another payFetch for the
\* same body is still running or while the body's completed entry is visible.
C2_OnePaymentPerBody ==
    [][\A r \in Reqs :
          req'[r].fetches > req[r].fetches =>
              /\ \A o \in Reqs \ {r} :
                    ~ (req[o].pc = "pay" /\ req[o].body = req'[r].body)
              /\ ~ DedupVisible(completed[req'[r].body], now)]_vars

\* C3: a registered marker belongs to a request that is still being handled
\* and is not itself waiting on a marker; so a request that ended left no
\* marker, no marker remains once no request is active, and a request that
\* finds a marker finds one whose call is running.
C3_MarkersOfEndedRequestsRemoved ==
    \A k \in Bodies :
        inflight[k] # 0 =>
            /\ req[inflight[k]].pc \in {"rpc", "pay", "body"}
            /\ req[inflight[k]].body = k

\* a request rejected by the balance gate, one that failed after payFetch
\* started, nothing active and no marker left
C3_Witness ==
    /\ \E r \in Reqs : req[r].via = "rejected"
    /\ \E r \in Reqs : req[r].via = "error" /\ req[r].fetches = 1
    /\ \A r \in Reqs : Done(r)
    /\ \A k \in Bodies : inflight[k] = 0

\* C4: every request that is being handled eventually ends, with a response
\* or an error written to its caller; a duplicate awaiting an original that
\* was released without being completed and a request suspended in the
\* balance read included.
C4_EveryRequestEnds ==
    \A r \in Reqs : (Active(req[r]) ~> (Done(r) /\ req[r].out.ended))

\* every balance read made so far has failed: the wallet's balance is
\* unreadable (a successful read never answers 0 here)
BalanceUnreadable ==
    /\ \E r \in Reqs : req[r].readFailed
    /\ \A r \in Reqs : req[r].info \in {NullBalance, 0}

\* C10 as stated: a failed balance read is reported as zero, empty and low,
\* and while the balance is unreadable no request starts its upstream call.
C10_NothingForwardedWhileUnreadable ==
    [][/\ \A r \in Reqs : req'[r].readFailed =>
              (req'[r].info = 0 /\ IsEmpty(req'[r].info) /\ IsLow(req'[r].info))
       /\ BalanceUnreadable => \A r \in Reqs : req'[r].fetches = req[r].fetches]_vars

\* C10, amended: a failed balance read is reported as zero, empty and low
\* instead of raising, and the request whose read failed is rejected by the
\* gate with the empty-wallet error, its marker released, the notification
\* made, and is never forwarded upstream.
C10_FailedReadNeverForwarded ==
    \A r \in Reqs :
        req[r].readFailed =>
            /\ req[r].info = 0 /\ IsEmpty(req[r].info) /\ IsLow(req[r].info)
            /\ Done(r) /\ req[r].via = "rejected" /\ req[r].cause = "empty_wallet"
            /\ req[r].fetches = 0 /\ pay[r].pc = "idle"
            /\ req[r].notified = 1
            /\ inflight[req[r].body] # r

\* a request rejected after its balance read failed, while another request,
\* whose read succeeded, was forwarded
C10_Witness ==
    /\ \E r \in Reqs : req[r].readFailed /\ req[r].via = "rejected"
    /\ \E r \in Reqs : ~ req[r].readFailed /\ req[r].info = 5000 /\ req[r].fetches = 1

----------------------------------------------------------------------------
(* Claims about the balance gate *)

Contains(seq, x) == \E i \in DOMAIN seq : seq[i] = x

RejectedByGate(r) == Done(r) /\ req[r].via = "rejected"

\* C11: a request rejected by the balance gate never called payFetch, so
\* nothing was sent upstream and nothing was signed for it, and no streaming
\* header or keep-alive was written: all it was sent is the 502 JSON error.
C11_RejectedBeforeAnyCallOrHeader ==
    \A r \in Reqs :
        RejectedByGate(r) =>
            /\ req[r].fetches = 0
            /\ pay[r] = IdlePay
            /\ req[r].out.status = 502 /\ req[r].out.headers = "json"
            /\ ~ Contains(req[r].out.body, "hb")
            /\ ~ req[r].hb /\ ~ req[r].timer /\ ~ req[r].hooked

\* a streaming request rejected for insufficient funds
C11_Witness ==
    \E r \in Reqs :
        RejectedByGate(r) /\ req[r].stream /\ req[r].cause = "insufficient_funds"

\* C12: the gate on a balance below 100 throws EmptyWalletError, on a balance
\* of at least 100 but below the estimate InsufficientFundsError, on any other
\* balance nothing; the rejected caller is sent HTTP 502 with type
\* proxy_error and a message holding the wallet address, and "No USDC
\* balance" in the empty case.
C12_GateErrorsAnd502 ==
    \A r \in Reqs :
        req[r].info # NullBalance =>
            /\ req[r].info < 100 =>
                  /\ RejectedByGate(r) /\ req[r].cause = "empty_wallet"
                  /\ Contains(req[r].out.body, "No USDC balance")
            /\ (req[r].info >= 100 /\ req[r].info < BodyEstimate(req[r].body)) =>
                  /\ RejectedByGate(r) /\ req[r].cause = "insufficient_funds"
                  /\ ~ Contains(req[r].out.body, "No USDC balance")
            /\ (req[r].info >= 100 /\ req[r].info >= BodyEstimate(req[r].body)) =>
                  ~ RejectedByGate(r)
            /\ RejectedByGate(r) =>
                  /\ req[r].out.status = 502
                  /\ req[r].out.ended
                  /\ Contains(req[r].out.body, "proxy_error")
                  /\ Contains(req[r].out.body, "walletAddress")

\* one request rejected on a balance of 99, another on a balance of 100
C12_Witness ==
    /\ \E r \in Reqs : RejectedByGate(r) /\ req[r].info = 99
    /\ \E r \in Reqs : RejectedByGate(r) /\ req[r].info = 100

\* C13: every request rejected by the balance gate, streaming or not, had
\* onInsufficientFunds invoked exactly once; no other request had it invoked.
C13_NotifiedExactlyOnce ==
    \A r \in Reqs :
        /\ RejectedByGate(r) => req[r].notified = 1
        /\ ~ RejectedByGate(r) => req[r].notified = 0

\* a streaming request rejected on an empty wallet and a non-streaming one
\* rejected too
C13_Witness ==
    /\ \E r \in Reqs : RejectedByGate(r) /\ req[r].stream /\ req[r].cause = "empty_wallet"
    /\ \E r \in Reqs : RejectedByGate(r) /\ ~ req[r].stream

----------------------------------------------------------------------------
(* Claims about the balance monitor, over SpecMonitor *)

\* C14: the cached balance is never negative, and the last deductEstimated(D)
\* on a cached balance B left B when D > B and B - D otherwise.
C14_DeductNeverNegative ==
    /\ cachedBalance # NullBalance => cachedBalance >= 0
    /\ mon.last.op = "deduct" /\ mon.last.before # NullBalance =>
          /\ mon.last.after >= 0
          /\ mon.last.amount > mon.last.before => mon.last.after = mon.last.before
          /\ mon.last.amount <= mon.last.before =>
                mon.last.after = mon.last.before - mon.last.amount

\* an exact deduction emptied the cached balance, after which a deduction was
\* refused
C14_Witness ==
    /\ mon.last.op = "deduct" /\ mon.last.before = 0 /\ mon.last.amount = 2500
    /\ mon.last.after = 0
    /\ \E c \in Checks : mon.calls[c].pc = "returned" /\ mon.calls[c].info = 5000

StaleAt(at, t) == t - at >= CACHE_TTL_MS

\* C15 as stated: the last deductEstimated changed nothing if the cache was
\* empty or older than the TTL when it ran.
C15_DeductNoOpWhenEmptyOrStale ==
    (mon.last.op = "deduct"
        /\ (mon.last.before = NullBalance \/ StaleAt(mon.last.beforeAt, mon.last.at)))
    => (mon.last.after = mon.last.before /\ mon.last.afterAt = mon.last.beforeAt)

\* C15, amended: deductEstimated changes nothing when the cache is empty; on
\* a stale cache it still lowers the stored balance (when it covers the
\* amount) and never touches the timestamp, and that stale value is not
\* served: checkBalance answers from the cache only when it is younger than
\* the TTL.
C15_DeductNoOpWhenEmpty ==
    /\ mon.last.op = "deduct" =>
          /\ mon.last.afterAt = mon.last.beforeAt
          /\ mon.last.before = NullBalance => mon.last.after = NullBalance
          /\ (StaleAt(mon.last.beforeAt, mon.last.at)
                 /\ mon.last.before >= mon.last.amount) =>
                mon.last.after = mon.last.before - mon.last.amount
    /\ \A c \in Checks :
          (mon.calls[c].pc = "returned" /\ ~ mon.calls[c].read) =>
              (mon.calls[c].age < CACHE_TTL_MS /\ mon.calls[c].info # NullBalance)

\* a stale cache was lowered by deductEstimated, and the checkBalance after
\* it read the chain
C15_Witness ==
    /\ mon.last.op = "deduct" /\ StaleAt(mon.last.beforeAt, mon.last.at)
    /\ mon.last.before = 5000 /\ mon.last.after = 2500
    /\ \E c \in Checks : mon.calls[c].pc = "returned" /\ mon.calls[c].read
                            /\ mon.calls[c].start >= mon.last.at
                            /\ mon.calls[c].start > 0

\* C16: invalidate() leaves no balance and timestamp 0, changes nothing on an
\* empty cache, and no checkBalance that starts after it is answered from a
\* value whose read began before it.
C16_InvalidateForcesRead ==
    /\ mon.last.op = "invalidate" =>
          /\ mon.last.after = NullBalance /\ mon.last.afterAt = 0
          /\ mon.last.before = NullBalance =>
                (mon.last.after = mon.last.before /\ mon.last.afterAt = mon.last.beforeAt)
    /\ \A c \in Checks :
          (mon.calls[c].pc = "returned" /\ ~ mon.calls[c].read) => ~ mon.old

----------------------------------------------------------------------------
(* Claims about the balance cache at the end of a request, over Spec *)

\* request r ends in this step
Ends(r) == req[r].pc # "done" /\ req'[r].pc = "done"

\* a signed payment went upstream for r: pre-signed, or signed by handle402
PaymentSent(r) == pay'[r].preAuthed \/ pay'[r].sends = 2

\* r ends with an error of the taxonomy after payFetch was invoked: payFetch
\* or the body read threw (protocol error, timeout, network), or the upstream
\* answered a paid request with a non-success status
EndsInErrorAfterPay(r) ==
    /\ Ends(r)
    /\ req'[r].fetches = 1
    /\ \/ req'[r].via = "error"
       \/ req'[r].via = "forwarded" /\ req'[r].up # 200 /\ PaymentSent(r)

\* C17: when a request for which payFetch was invoked ends with an error, the
\* balance cache is invalidated by the step that ends it.
C17_ErrorAfterPayInvalidates ==
    [][\A r \in Reqs :
          EndsInErrorAfterPay(r) => (cachedBalance' = NullBalance /\ cachedAt' = 0)]_vars

\* the step lowers the cached balance by r's estimate
Decrements(r) ==
    /\ BodyEstimate(req[r].body) # Absent
    /\ cachedBalance # NullBalance
    /\ cachedBalance' = cachedBalance - BodyEstimate(req[r].body)

\* C18: the step that ends a request lowers the cached balance by the
\* request's estimate when its paid upstream call succeeded (and the cached
\* balance covers it), and does not lower it when the final upstream response
\* was not a success or when the request was answered from the deduplicator.
C18_DeductOnlyOnSuccess ==
    [][\A r \in Reqs :
          Ends(r) =>
             /\ (req'[r].via = "forwarded" /\ req'[r].up = 200 /\ PaymentSent(r)
                    /\ BodyEstimate(req[r].body) # Absent
                    /\ cachedBalance # NullBalance
                    /\ cachedBalance >= BodyEstimate(req[r].body)) => Decrements(r)
             /\ (req'[r].via \in {"cached", "inflight"}
                    \/ (req'[r].via = "forwarded" /\ req'[r].up # 200)) => ~ Decrements(r)]_vars

----------------------------------------------------------------------------
(* The streaming keep-alive *)

\* the tokens of a response body from the first that is not a keep-alive
RECURSIVE AfterKeepAlives(_)
AfterKeepAlives(body) ==
    IF body = <<>> \/ Head(body) # "hb" THEN body ELSE AfterKeepAlives(Tail(body))

\* a keep-alive comment is appended to r's response in this step
KeepAliveWritten(r) == KeepAlives(req'[r].out.body) > KeepAlives(req[r].out.body)

C19_State ==
    \A r \in Reqs :
        /\ (req[r].stream /\ PayPending(r)) =>
              /\ req[r].out.status = 200
              /\ req[r].out.headers = "sse-early"
              /\ req[r].out.body # <<>>
              /\ req[r].out.body[1] = "hb"
        /\ req[r].hb => (req[r].stream /\ req[r].pc = "pay" /\ PayPending(r)
                         /\ ~ req[r].out.ended)
        /\ KeepAlives(AfterKeepAlives(req[r].out.body)) = 0
        /\ ~ req[r].stream => KeepAlives(req[r].out.body) = 0

C19_Step ==
    \A r \in Reqs :
        /\ (pay[r].pc = "idle" /\ pay'[r].pc # "idle" /\ req'[r].stream) =>
              /\ req[r].out = NoOut
              /\ req'[r].out = [status |-> 200, headers |-> "sse-early",
                                body |-> <<"hb">>, ended |-> FALSE]
        /\ KeepAliveWritten(r) =>
              \/ req[r].out = NoOut /\ pay[r].pc = "idle" /\ pay'[r].pc = "fetch1"
              \/ req[r].hb /\ PayPending(r) /\ AfterKeepAlives(req[r].out.body) = <<>>
        /\ (req[r].hb /\ (~ PayPending(r))') => ~ req'[r].hb
        /\ (req[r].hb /\ req[r].hooked /\ req[r].client = "here"
            /\ req'[r].client = "gone") => ~ req'[r].hb
        /\ req[r].out.ended => req'[r].out = req[r].out

\* What holds of the keep-alive: a streaming request has its 200 status, SSE
\* headers and first keep-alive written, on a response that held nothing, in
\* the step that invokes payFetch and so before any upstream traffic; a
\* further keep-alive is written only while the timer is armed and payFetch is
\* pending; the timer is off as soon as payFetch returns or fails, or the
\* client disconnects once the close handler is registered; no keep-alive
\* follows a data event, and nothing is written once the response has ended.
KeepAliveOnlyWhilePending == [] C19_State /\ [][C19_Step]_vars

\* C19: all of the above, and the timer is cancelled as soon as the client
\* disconnects: no timer is armed, and no keep-alive is written, for a client
\* that has gone.
C19_TimerOffOnceClientGone ==
    /\ KeepAliveOnlyWhilePending
    /\ [] (\A r \in Reqs : req[r].hb => req[r].client = "here")
    /\ [][\A r \in Reqs : KeepAliveWritten(r) => req[r].client = "here"]_vars

----------------------------------------------------------------------------
(* The re-chunked streaming response *)

\* a streaming request ended with its upstream 200 body re-chunked
StreamedOk(r) ==
    /\ req[r].stream /\ req[r].via = "forwarded" /\ req[r].up = 200
    /\ req[r].out.ended

\* role, content, finish for each of n choices
RECURSIVE Triples(_)
Triples(n) == IF n = 0 THEN <<>> ELSE <<"role", "content", "finish">> \o Triples(n - 1)

Terminators(body) == Cardinality({ i \in DOMAIN body : body[i] = "done" })

\* What holds of the re-chunked response: a parsed body is written per choice
\* as role, content when the choice has any, finish; a body that cannot be
\* parsed is written as one raw data event; one terminator is written, last;
\* the upstream request carries stream true only when the routing block threw.
RechunkedAsWritten ==
    \A r \in Reqs :
        StreamedOk(r) =>
            LET events == AfterKeepAlives(req[r].out.body)
            IN  /\ events = (IF req[r].payload.parsed
                             THEN ChunksOf(req[r].payload.choices)
                             ELSE <<"raw">>) \o <<"done">>
                /\ Terminators(req[r].out.body) = 1
                /\ events[Len(events)] = "done"
                /\ req[r].fwdStream = RoutingThrows(req[r].body)

\* C20: a successful streaming response is, after the keep-alives, for each
\* choice a role event, a content event and a finish event, then exactly one
\* terminator, which is the last thing written; and the upstream request for
\* it was sent with stream false.
C20_RoleContentFinishThenDone ==
    \A r \in Reqs :
        StreamedOk(r) =>
            LET events == AfterKeepAlives(req[r].out.body)
            IN  /\ \E n \in 0..Len(events) : events = Triples(n) \o <<"done">>
                /\ Terminators(req[r].out.body) = 1
                /\ events[Len(events)] = "done"
                /\ ~ req[r].fwdStream

\* C20, the upstream request alone: it is sent with stream false
C20_UpstreamStreamFalse ==
    \A r \in Reqs : StreamedOk(r) => ~ req[r].fwdStream

----------------------------------------------------------------------------
(* The request timeout *)

\* r's timeout fires in this step
TimesOut(r) == req[r].cause # "timeout" /\ req'[r].cause = "timeout"

\* r's payFetch returned, which cleared the timer
TimerCleared(r) == ~ req[r].timer /\ req[r].pc \in {"body", "done"} /\ req[r].cause = "none"

C21_Step ==
    \A r \in Reqs :
        /\ TimesOut(r) =>
              /\ req[r].timer /\ PayPending(r)
              /\ pay'[r].pc = "thrown" /\ pay'[r].cause = "timeout"
              /\ inflight'[req[r].body] = 0
              /\ cachedBalance' = NullBalance
              /\ req'[r].pc = "done" /\ ~ req'[r].timer
              /\ req'[r].out.ended
              /\ Contains(req'[r].out.body, "proxy_error")
              /\ Contains(req'[r].out.body, "Request timed out after")
        /\ TimerCleared(r) => (~ TimesOut(r) /\ pay'[r] = pay[r])

C21_State ==
    \A r \in Reqs :
        /\ req[r].timer => (req[r].pc = "pay" /\ PayPending(r))
        /\ (pay[r].cause = "timeout") = (req[r].cause = "timeout")
        /\ req[r].via = "forwarded" =>
              (pay[r].pc = "returned" /\ ~ Contains(req[r].out.body, "Request timed out after"))

\* C21: when a request's timeout fires, the pending payFetch is rejected with
\* the abort, the marker under the request's key is released, the balance
\* cache is invalidated and the response ends with the timeout error; the
\* timer is armed only while payFetch is pending, and a request whose payFetch
\* returned never times out, its call is never aborted and its response never
\* carries the timeout error.
C21_TimeoutAbortsReleasesInvalidates == [] C21_State /\ [][C21_Step]_vars

\* a priced request read the balance 5000, timed out while payFetch was
\* pending, and the cache is empty and the marker gone
C21_Witness ==
    \E r \in Reqs :
        /\ req[r].cause = "timeout" /\ req[r].info = 5000
        /\ pay[r].cause = "timeout"
        /\ inflight[req[r].body] = 0
        /\ cachedBalance = NullBalance
        /\ Contains(req[r].out.body, "Request timed out after")

----------------------------------------------------------------------------
(* Client disconnect *)

\* r's response emits 'close' in this step
Closes(r) == req[r].client = "here" /\ req'[r].client = "gone"

\* r registered the marker under its key and the marker is still there
OwnMarker(r) == Active(req[r]) /\ inflight[req[r].body] = r

\* What holds of a disconnect: once the close handler is registered, a
\* disconnect stops the keep-alive timer and removes the marker under the
\* request's key unless the request had completed; before that it changes
\* nothing; after completion it leaves entries and markers as they were.
CloseHandlerEffect ==
    [][\A r \in Reqs :
          Closes(r) =>
              /\ ~ req'[r].hb
              /\ (req[r].hooked /\ ~ req[r].completed) => inflight'[req[r].body] = 0
              /\ (~ req[r].hooked \/ req[r].completed) => inflight' = inflight
              /\ completed' = completed]_vars

\* C22: when the client disconnects while its request is being handled, the
\* keep-alive timer is off afterwards and the marker the request registered is
\* released, the request not having completed; a disconnect after completion
\* leaves the completed entries and every marker as they were.
C22_DisconnectReleasesOwnMarker ==
    [][\A r \in Reqs :
          Closes(r) =>
              /\ ~ req'[r].hb
              /\ OwnMarker(r) => inflight'[req[r].body] = 0
              /\ req[r].completed => (inflight' = inflight /\ completed' = completed)]_vars

----------------------------------------------------------------------------
(* Error delivery *)

\* r ends in this step with an error thrown by proxyRequest
FailsNow(r) ==
    req[r].pc # "done" /\ req'[r].pc = "done" /\ req'[r].via \in {"rejected", "error"}

\* r, streaming, ends in this step on an upstream answer that is not 200
UpstreamErrorNow(r) ==
    /\ req[r].pc = "body" /\ req'[r].pc = "done" /\ req'[r].via = "forwarded"
    /\ req[r].stream /\ req[r].up # 200

Count(body, x) == Cardinality({ i \in DOMAIN body : body[i] = x })

\* the early headers of a streaming response are out
Flushed(q) == q.stream /\ q.out.status = 200 /\ q.out.headers = "sse-early"

\* the shared part: 502 with the proxy_error body before any header, and
\* after the flush what is written ends with one terminator and the
\* response is ended
ErrorFraming(r) ==
    /\ (FailsNow(r) /\ req[r].out.status = 0) =>
          req'[r].out = [status |-> 502, headers |-> "json",
                         body |-> <<"proxy_error", "Proxy error: ">>
                                      \o ErrorMessage(req'[r].cause),
                         ended |-> TRUE]
    /\ ((FailsNow(r) \/ UpstreamErrorNow(r)) /\ Flushed(req[r])) =>
          /\ Terminators(req'[r].out.body) = 1
          /\ req'[r].out.body[Len(req'[r].out.body)] = "done"
          /\ req'[r].out.ended /\ req'[r].out.status = 200

\* C23 as stated: every streaming failure after the flush is written as one
\* event of type proxy_error and one terminator
C23_EveryStreamingFailureProxyError ==
    [][\A r \in Reqs :
          /\ ErrorFraming(r)
          /\ ((FailsNow(r) \/ UpstreamErrorNow(r)) /\ Flushed(req[r])) =>
                /\ Count(req'[r].out.body, "proxy_error") = 1
                /\ Count(req'[r].out.body, "upstream_error") = 0]_vars

\* C23: a failure before any header is answered 502 with the proxy_error body;
\* after the flush an error thrown by proxyRequest is written as one event of
\* type proxy_error with its message, and an upstream answer that is not 200
\* as one event of type upstream_error; either is followed by exactly one
\* terminator and the response is ended.
C23_ErrorShapes ==
    [][\A r \in Reqs :
          /\ ErrorFraming(r)
          /\ (FailsNow(r) /\ Flushed(req[r])) =>
                req'[r].out.body = req[r].out.body
                                       \o <<"proxy_error">> \o ErrorMessage(req'[r].cause)
                                       \o <<"done">>
          /\ (UpstreamErrorNow(r) /\ Flushed(req[r])) =>
                req'[r].out.body = req[r].out.body \o <<"upstream_error", "done">>]_vars

\* one request failed before any header and got the 502 body; another,
\* streaming, failed after the flush and got the proxy_error event and the
\* terminator
C23_Witness ==
    \E r1, r2 \in Reqs :
        /\ req[r1].via = "error" /\ req[r1].out.status = 502
        /\ req[r1].out.body[1] = "proxy_error"
        /\ req[r2].via = "error" /\ req[r2].stream /\ req[r2].out.status = 200
        /\ AfterKeepAlives(req[r2].out.body) = <<"proxy_error">> \o ErrorMessage(req[r2].cause) \o <<"done">>

----------------------------------------------------------------------------
(* Routing trigger, checked under SpecRouting *)

\* the model field spells a sentinel: one of the two names in any case,
\* between leading and trailing white space
SpellsAuto(model) == model.isString /\ model.chars \in Spellings(AutoCores)

RoutingReturned == calc.pc = "returned" /\ calc.op = "routing"

\* C24 as stated: the routing branch is entered exactly when the model field
\* spells a sentinel, and any other model field is sent on as received.
C24_RoutedExactlyWhenAuto ==
    RoutingReturned =>
        /\ calc.result.entered = SpellsAuto(calc.arg.model)
        /\ ~ SpellsAuto(calc.arg.model) => calc.result.model = calc.arg.model

\* C24: on a chat-completions request whose body parses, the routing branch
\* is entered exactly when the model field spells a sentinel; on any other
\* request it is never entered; a model field that spells no sentinel is sent
\* on as received, and so is every model field of a request whose branch was
\* not entered.
C24_RoutedExactlyWhenAutoOnChat ==
    RoutingReturned =>
        /\ (calc.arg.chat /\ calc.arg.parses) =>
              calc.result.entered = SpellsAuto(calc.arg.model)
        /\ ~ (calc.arg.chat /\ calc.arg.parses) => ~ calc.result.entered
        /\ ~ SpellsAuto(calc.arg.model) => calc.result.model = calc.arg.model
        /\ ~ calc.result.entered => calc.result.model = calc.arg.model

\* " AUTO" followed by a tab, on a chat-completions request, was routed to
\* the decision's model
C24_Witness ==
    /\ RoutingReturned
    /\ calc.arg.chat /\ calc.arg.parses /\ calc.arg.walks
    /\ calc.arg.model = ModelId(<<" ", "A", "U", "T", "O", "\t">>)
    /\ calc.result = [entered |-> TRUE, model |-> DecisionModel]

----------------------------------------------------------------------------
(* Thinking markup, checked under SpecForward *)

HasMarkup(str) == \E i \in DOMAIN str : str[i] \in KimiTokens \cup ThinkTags

ForwardReturned == calc.pc = "returned" /\ calc.op = "forward"

\* C25: whatever path forwards upstream content to the caller (re-chunked
\* stream, non-streaming pass-through, replay of either), what the caller is
\* sent holds no thinking markup.
C25_NoMarkupReachesCaller ==
    ForwardReturned => ~ HasMarkup(calc.result)

\* C25, the re-chunked stream alone: content that went through
\* stripThinkingTokens holds no thinking markup
C25_StrippedContentHasNoMarkup ==
    (ForwardReturned /\ calc.arg.path = "stream" /\ calc.arg.parsed) =>
        ~ HasMarkup(calc.result)

\* What holds: on the re-chunked stream every Kimi token and every think tag
\* that the upstream content held as such is removed, with the content of
\* each paired block; markup survives only where removing a tag puts the
\* halves of another together.
StripRemovesWrittenMarkup ==
    (ForwardReturned /\ calc.arg.path = "stream" /\ calc.arg.parsed) =>
        /\ \A i \in DOMAIN calc.result : calc.result[i] \notin KimiTokens \cup {"tc"}
        /\ HasMarkup(calc.result) =>
              \E i \in 1..(Len(calc.arg.content) - 2) :
                  /\ calc.arg.content[i] = "to_l"
                  /\ calc.arg.content[i + 1] \in ThinkTags

-----------------------------------------------------------------------------
(* C26: for every balance b, isEmpty(b) holds exactly when b < 100 and      *)
(* isLow(b) exactly when b < 1,000,000: 99 is empty and 100 is not, 999,999 *)
(* is low and 1,000,000 is not, and an empty balance is a low balance.      *)

InfoReturned == calc.pc = "returned" /\ calc.op = "buildInfo"

C26_ThresholdsExact ==
    InfoReturned =>
        /\ calc.result.isEmpty <=> calc.arg < 100
        /\ calc.result.isLow <=> calc.arg < 1000000
        /\ calc.result.isEmpty => calc.result.isLow
        /\ calc.arg = 99 => calc.result.isEmpty
        /\ calc.arg = 100 => ~ calc.result.isEmpty
        /\ calc.arg = 999999 => calc.result.isLow
        /\ calc.arg = 1000000 => ~ calc.result.isLow

\* buildInfo has returned for the last low balance: low, not empty
C26_Witness ==
    /\ InfoReturned
    /\ calc.arg = 999999
    /\ calc.result.isLow
    /\ ~ calc.result.isEmpty

-----------------------------------------------------------------------------
(* C27: formatUSDC(amount) divides the amount by 1,000,000 and renders it   *)
(* with exactly two decimals, rounding half away from zero, and is          *)
(* monotonic in the amount; 0 and 100 give "$0.00", 10,000 gives "$0.01",   *)
(* 12,345,678 gives "$12.35".                                               *)

FormatReturned == calc.pc = "returned" /\ calc.op = "formatUSDC"

IsDigits(str) == \A i \in 1..Len(str) : \E k \in 1..10 : DecimalDigits[k] = str[i]

DigitValue(c) == (CHOOSE k \in 1..10 : DecimalDigits[k] = c) - 1

RECURSIVE NumberOf(_)
NumberOf(str) ==
    IF str = <<>> THEN 0
    ELSE 10 * NumberOf(SubSeq(str, 1, Len(str) - 1)) + DigitValue(str[Len(str)])

\* a dollar sign, at least one digit, a point, exactly two digits
TwoDecimals(str) ==
    /\ Len(str) >= 5
    /\ str[1] = "$"
    /\ IsDigits(SubSeq(str, 2, Len(str) - 3))
    /\ str[Len(str) - 2] = "."
    /\ IsDigits(SubSeq(str, Len(str) - 1, Len(str)))

\* the rendered value, in cents
CentsOf(str) ==
    100 * NumberOf(SubSeq(str, 2, Len(str) - 3)) + NumberOf(SubSeq(str, Len(str) - 1, Len(str)))

HalfAwayFromZero(amount) == (amount + 5000) \div 10000

Monotonic ==
    /\ TwoDecimals(calc.result[1])
    /\ TwoDecimals(calc.result[2])
    /\ CentsOf(calc.result[1]) <= CentsOf(calc.result[2])

GivenExamples ==
    \A i \in 1..2 :
        /\ calc.arg[i] \in {0, 100} => calc.result[i] = <<"$", "0", ".", "0", "0">>
        /\ calc.arg[i] = 10000 => calc.result[i] = <<"$", "0", ".", "0", "1">>
        /\ calc.arg[i] = 12345678 => calc.result[i] = <<"$", "1", "2", ".", "3", "5">>

\* C27 as stated: every amount is rendered rounded half away from zero
C27_HalfAwayFromZero ==
    FormatReturned =>
        /\ Monotonic
        /\ GivenExamples
        /\ \A i \in 1..2 : CentsOf(calc.result[i]) = HalfAwayFromZero(calc.arg[i])

\* C27 as the code has it: two decimals, a nearest cent (either neighbour
\* when the amount lies half way between two cents), monotonic, and the
\* examples as given
C27_NearestCentMonotonic ==
    FormatReturned =>
        /\ Monotonic
        /\ GivenExamples
        /\ \A i \in 1..2 :
              /\ 10000 * CentsOf(calc.result[i]) - calc.arg[i] <= 5000
              /\ calc.arg[i] - 10000 * CentsOf(calc.result[i]) <= 5000

\* one and a half cents and the largest example have been rendered
C27_Witness ==
    /\ FormatReturned
    /\ calc.arg = <<15000, 12345678>>
    /\ CentsOf(calc.result[1]) \in {1, 2}
    /\ calc.result[2] = <<"$", "1", "2", ".", "3", "5">>

-----------------------------------------------------------------------------
(* C28: every signed authorization carries a fresh nonce: no two            *)
(* authorizations the engine produced share a nonce, the pre-auth           *)
(* authorization and the challenge authorization of one payFetch call       *)
(* included.                                                                *)

IsSigning == calc.pc = "signing"

C28_State ==
    IsSigning =>
        \A i, j \in 1..Len(calc.auths) : i # j => calc.auths[i].nonce # calc.auths[j].nonce

\* every authorization added carries a nonce no earlier one carries
C28_Step ==
    (IsSigning /\ Len(calc'.auths) > Len(calc.auths)) =>
        /\ Len(calc'.auths) = Len(calc.auths) + 1
        /\ SubSeq(calc'.auths, 1, Len(calc.auths)) = calc.auths
        /\ \A i \in 1..Len(calc.auths) :
              calc.auths[i].nonce # calc'.auths[Len(calc'.auths)].nonce

-----------------------------------------------------------------------------
(* C29: route() forces tier REASONING with confidence exactly 0.97          *)
(* whenever the prompt matches two or more distinct reasoning markers,      *)
(* whatever the weighted sum of the other dimensions is; and the same       *)
(* (prompt, system prompt, max tokens) always yields the same decision.     *)

RouteReturned == calc.pc = "returned" /\ calc.op = "route"

\* the reasoning markers of the vocabulary, each with its spellings
MarkerSpellings ==
    { {"prove", "PROVE"}, {"theorem"}, {"step by step"} }

PromptMarkers(prompt) ==
    { sp \in MarkerSpellings : \E i \in 1..Len(prompt) : prompt[i] \in sp }

-----------------------------------------------------------------------------
(* C30: a request's cancellation (timeout, error or client disconnect)      *)
(* releases only the dedup marker this request itself registered: it never  *)
(* removes an in-flight marker registered under the same key by a           *)
(* different, later request, and never stops another request's keep-alive   *)
(* timer.                                                                   *)

Cancels(r) == TimesOut(r) \/ FailsNow(r) \/ Closes(r)

\* a marker of another request is there before the step and gone after it
RemovesMarkerOfOther(r) ==
    \E k \in Bodies : inflight[k] \notin {0, r} /\ inflight'[k] # inflight[k]

StopsTimerOfOther(r) == \E o \in Reqs \ {r} : req[o].hb /\ ~ req'[o].hb

C30_Step ==
    \A r \in Reqs : Cancels(r) => ~ RemovesMarkerOfOther(r) /\ ~ StopsTimerOfOther(r)

C30_CancellationReleasesOnlyOwn == [][C30_Step]_vars

\* the part about keep-alive timers on its own
C30_OtherTimersKeepRunning == [][\A r \in Reqs : Cancels(r) => ~ StopsTimerOfOther(r)]_vars

-----------------------------------------------------------------------------
(* C31: releasing a dedup marker is idempotent: when the error handler and  *)
(* the disconnect handler both release the same request's marker, or a      *)
(* marker is released after it was already completed, the second release    *)
(* changes no deduplicator state and raises no error.                       *)

\* a step in which request r's handler calls removeInflight: the close
\* handler of a request that has not completed, the gate, or the catch block
Releases(r) ==
    \/ Closes(r) /\ req[r].hooked /\ ~ req[r].completed
    \/ FailsNow(r)

\* r's own marker is no longer registered: released before, or completed
OwnMarkerGone(r) == inflight[req[r].body] # r

DedupUnchanged == inflight' = inflight /\ settled' = settled /\ completed' = completed

C31_Step == \A r \in Reqs : (Releases(r) /\ OwnMarkerGone(r)) => DedupUnchanged

C31_SecondReleaseChangesNothing == [][C31_Step]_vars

\* the same when no marker at all is registered under the key
C31_ReleaseOfAbsentMarker ==
    [][\A r \in Reqs : (Releases(r) /\ inflight[req[r].body] = 0) => DedupUnchanged]_vars

-----------------------------------------------------------------------------
(* C32: a request whose body hash has a completed entry younger than 30 s   *)
(* is answered with that entry's status, headers and body without any       *)
(* upstream call, balance check, payment signing or balance deduction; once *)
(* the entry is older than 30 s it is never served and the request proceeds *)
(* as a new one.                                                            *)

Arrives(r) == req[r].pc = "idle" /\ req'[r].pc # "idle"

\* the age of the completed entry under the body r arrives with
EntryAge(r) == now - completed[req'[r].body].completedAt

AnsweredFromEntry(r) ==
    LET entry == completed[req'[r].body]
    IN  /\ req'[r].pc = "done"
        /\ req'[r].via = "cached"
        /\ req'[r].out.status = entry.status
        /\ req'[r].out.headers = entry.headers
        /\ req'[r].out.body = entry.body
        /\ req'[r].out.ended

\* no upstream call, no balance check, no signing, no deduction
NothingSpent(r) ==
    /\ req'[r].fetches = 0
    /\ pay'[r] = pay[r]
    /\ req'[r].info = NullBalance
    /\ cachedBalance' = cachedBalance
    /\ cachedAt' = cachedAt
    /\ inflight' = inflight

ProceedsAsNew(r) ==
    /\ req'[r].via # "cached"
    /\ \/ req'[r].pc \in {"await", "rpc", "pay"}
       \/ req'[r].pc = "done" /\ req'[r].via = "rejected"

C32_Step ==
    \A r \in Reqs :
        (Arrives(r) /\ completed[req'[r].body] # NoEntry) =>
            /\ EntryAge(r) < 30000 => AnsweredFromEntry(r) /\ NothingSpent(r)
            /\ EntryAge(r) > 30000 => ProceedsAsNew(r)

\* a request answered from the cache stays as it was answered
C32_State ==
    \A r \in Reqs :
        req[r].via = "cached" =>
            /\ req[r].pc = "done"
            /\ req[r].fetches = 0
            /\ pay[r] = IdlePay
            /\ req[r].info = NullBalance

C32_CompletedEntryServedWhileYoung == [] C32_State /\ [][C32_Step]_vars

\* a request has been answered with the young entry of its body
C32_Witness ==
    \E r \in Reqs :
        /\ req[r].via = "cached"
        /\ completed[req[r].body] # NoEntry
        /\ now - completed[req[r].body].completedAt < 30000
        /\ req[r].out.body = completed[req[r].body].body
        /\ req[r].out.body # <<>>

\* an entry older than 30 s is there and a request with its body is under way
C32_StaleWitness ==
    \E r \in Reqs :
        /\ completed[req[r].body] # NoEntry
        /\ now - completed[req[r].body].completedAt > 30000
        /\ req[r].pc \in {"rpc", "pay"}

-----------------------------------------------------------------------------
(* C33: if the 402 challenge lists no payment option, or its first option   *)
(* carries neither amount nor maxAmountRequired, payFetch fails with a      *)
(* fatal error before any authorization is signed and before any retry is   *)
(* sent, and leaves the payment-parameter cache unchanged.                  *)

NoUsableOption(rsp) ==
    /\ rsp.status = 402
    /\ rsp.hdr.kind = "challenge"
    /\ \/ rsp.hdr.accepts = <<>>
       \/ /\ rsp.hdr.accepts[1].amount = Absent
          /\ rsp.hdr.accepts[1].maxAmountRequired = Absent

\* the first fetch of call c is answered by such a challenge
C33_Step ==
    \A c \in Calls, rsp \in UpstreamResponses :
        (EngineFirstResponse(c, rsp) /\ NoUsableOption(rsp)) =>
            /\ pay'[c].pc = "thrown"
            /\ pay'[c].cause = "challenge"
            /\ pay'[c].sends = Len(pay[c].sent)
            /\ pay'[c].sends = 1
            /\ cache' = cache

\* a call that failed on its challenge sent one request and nothing after it
C33_State ==
    \A c \in Calls : (pay[c].pc = "thrown" /\ pay[c].cause = "challenge") => pay[c].sends = 1

C33_NoOptionOrAmountIsFatal == [] C33_State /\ [][C33_Step]_vars

\* a pre-signed first attempt was answered by a challenge the call failed on,
\* and the terms cached before are still there
C33_Witness ==
    \E c \in Calls :
        /\ pay[c].pc = "thrown"
        /\ pay[c].cause = "challenge"
        /\ pay[c].preAuthed
        /\ pay[c].sends = 1
        /\ cache[pay[c].path] # NoEntry

-----------------------------------------------------------------------------
(* C34: set(p, terms) and invalidate(p) change only the entry for path p:   *)
(* for every other path q, get(q) returns the same result before and        *)
(* after; the key is the URL pathname only, so requests that differ only in *)
(* query string or headers share one entry.                                 *)

IsCache == calc.pc = "cache"

\* the path of a request, with "/" for the empty one
PathOf(u) == IF u.path = <<>> THEN <<"/">> ELSE u.path

Writes == IsCache /\ calc'.last.op \in {"set", "invalidate"}

\* get(q) on the map m at the time of the step
GetAt(m, q) ==
    IF m[q] = NoEntry \/ calc.clock - m[q].cachedAt > 3600000 THEN NoEntry ELSE m[q]

OtherPathsKept ==
    \A q \in CacheKeys \ {PathOf(calc'.last.request)} :
        GetAt(calc'.map, q) = GetAt(calc.map, q)

\* after set by one request, every request with the same path finds the
\* terms, whatever its query string, fragment and headers
SharedByPath ==
    calc'.last.op = "set" =>
        \A v \in CacheRequests :
            LET found == GetAt(calc'.map, PathOf(v))
            IN  IF v.path = calc'.last.request.path
                THEN /\ found # NoEntry
                     /\ found.payTo = calc'.last.option.payTo
                     /\ found.cachedAt = calc.clock
                ELSE found = GetAt(calc.map, PathOf(v))

\* after invalidate by one request, no request with the same path finds terms
DroppedByPath ==
    calc'.last.op = "invalidate" =>
        \A v \in CacheRequests :
            v.path = calc'.last.request.path => GetAt(calc'.map, PathOf(v)) = NoEntry

\* a lookup returns what the map holds under the request's path
LookupByPath ==
    (IsCache /\ calc'.last.op = "get") =>
        calc'.last.result = GetAt(calc.map, PathOf(calc'.last.request))

C34_Step == (Writes => OtherPathsKept /\ SharedByPath /\ DroppedByPath) /\ LookupByPath

C34_OnlyOwnPathChanges == [][C34_Step]_vars

\* a request with a query string has found the terms of its path while a
\* longer path holds other terms
C34_Witness ==
    /\ IsCache
    /\ calc.last.op = "get"
    /\ calc.last.request.path = <<"/v1">>
    /\ calc.last.request.rest = <<"?a=2">>
    /\ calc.last.result # NoEntry
    /\ calc.last.result.payTo = "payeeB"
    /\ calc.map[<<"/v1", "/chat">>] # NoEntry
    /\ calc.map[<<"/v1", "/chat">>].payTo = "payeeA"
----------------------------------------------------------------------------
(* Claims about checkBalance and its cache, over SpecMonitor *)

\* a checkBalance call starts in this step
CheckStarts(c) ==
    /\ mon.calls[c].pc # "reading"
    /\ mon'.calls[c] # mon.calls[c]

\* the on-chain read of call c resolves in this step
ReadEnds(c) == mon.calls[c].pc = "reading" /\ mon'.calls[c].pc = "returned"

\* a cached value exists and is younger than 30 s
YoungValue == cachedBalance # NullBalance /\ now - cachedAt < 30000

\* what an on-chain read can produce: a balance, or the zero of a failed read
ReadResults == {0, 99, 100, 5000}

\* C35: a checkBalance call returns without an on-chain read exactly when a
\* cached value exists and is younger than 30 s, and then returns that value
\* and leaves the cache alone; otherwise it starts one on-chain read, and when
\* the read resolves its result (zero for a failed read) is stored with the
\* time the call began and returned.
C35_Step ==
    \A c \in Checks :
       /\ CheckStarts(c) =>
             /\ (mon'.calls[c].pc = "returned" /\ ~ mon'.calls[c].read) <=> YoungValue
             /\ YoungValue => mon'.calls[c].info = cachedBalance
             /\ ~ YoungValue => mon'.calls[c].pc = "reading"
             /\ mon'.calls[c].start = now
             /\ UNCHANGED <<cachedBalance, cachedAt>>
       /\ ReadEnds(c) =>
             /\ mon'.calls[c].read
             /\ mon'.calls[c].info \in ReadResults
             /\ cachedBalance' = mon'.calls[c].info
             /\ cachedAt' = mon.calls[c].start

C35_CachedExactlyWhenYoung == [][C35_Step]_vars

\* the zero of a failed read is in the cache, stored by one call, and another
\* call that began later and within 30 s of it was answered with it without
\* a read
C35_Witness ==
    /\ cachedBalance = 0
    /\ \E c, d \in Checks :
          /\ mon.calls[c].pc = "returned" /\ mon.calls[c].read
          /\ mon.calls[c].info = 0 /\ mon.calls[c].start = cachedAt
          /\ mon.calls[d].pc = "returned" /\ ~ mon.calls[d].read
          /\ mon.calls[d].info = 0

\* a call began 30 s or more after the stored value's time and read the chain
C35_StaleWitness ==
    /\ cachedBalance = 5000 /\ cachedAt >= 30000
    /\ \E c \in Checks : /\ mon.calls[c].pc = "returned" /\ mon.calls[c].read
                         /\ mon.calls[c].start = cachedAt

----------------------------------------------------------------------------
(* Claims about what precedes the upstream call, over Spec *)

\* payFetch has been invoked for r
ReachedPayFetch(r) == req[r].fetches > 0

\* r's balance gate ran and found the wallet non-empty and sufficient for
\* r's estimate
PassedGate(r) ==
    /\ req[r].info # NullBalance
    /\ req[r].info >= 100
    /\ BodyEstimate(req[r].body) # Absent
    /\ req[r].info >= BodyEstimate(req[r].body)

\* C36 as stated: every request for which payFetch has been invoked passed
\* the balance gate before.
C36_EveryUpstreamCallGated ==
    \A r \in Reqs : ReachedPayFetch(r) => PassedGate(r)

\* C36, amended: a request with a cost estimate reaches payFetch only after
\* its balance gate found the wallet non-empty and sufficient for the
\* estimate; a request without an estimate reaches payFetch without any
\* balance check.
C36_EstimatedCallsGated ==
    \A r \in Reqs :
        ReachedPayFetch(r) =>
            IF BodyEstimate(req[r].body) # Absent
            THEN PassedGate(r)
            ELSE req[r].info = NullBalance /\ req[r].readStart = 0

\* one request passed the gate on a balance of 5000 and went upstream, and
\* another, without an estimate, went upstream unchecked
C36_Witness ==
    /\ \E r \in Reqs : /\ ReachedPayFetch(r) /\ req[r].body = "b1"
                       /\ req[r].info = 5000
    /\ \E r \in Reqs : /\ ReachedPayFetch(r) /\ req[r].body = "b2"
                       /\ req[r].info = NullBalance

----------------------------------------------------------------------------
(* Claims about what the engine signs, over SpecEngine *)

\* the authorizations signed so far by the running call c
SignedBy(c) == { pay[c].sent[i] : i \in { j \in DOMAIN pay[c].sent : pay[c].sent[j].signed } }

\* C37: the value of every authorization signed for a call that was given an
\* estimate (the amount the balance gate approved) is at most that estimate.
C37_SignedValueWithinEstimate ==
    \A c \in Calls :
        (PayPending(c) /\ pay[c].est # Absent) =>
            \A a \in SignedBy(c) : a.value <= pay[c].est

\* the authorization attached to a first attempt is for exactly the estimate
C37_PreAuthSignsEstimate ==
    \A c \in Calls :
        (PayPending(c) /\ pay[c].sent[1].signed) =>
            (pay[c].est # Absent /\ pay[c].sent[1].value = pay[c].est)

\* payFetch starts for call c in this step
CallStarts(c) == pay[c].pc # "fetch1" /\ pay'[c].pc = "fetch1"

\* hdr is a decoded challenge with at least one option
HasOption(hdr) == hdr.kind = "challenge" /\ hdr.accepts # <<>>

\* C38: a first attempt is signed only to the payee of the terms that the
\* last challenge for the call's path left in the cache, and only while those
\* terms are not older than one hour; a call to a path for which no challenge
\* has been cached sends its first attempt unsigned; and the retry that
\* answers a challenge is signed to the payee of that challenge's first
\* option.
C38_Step ==
    \A c \in Calls :
       /\ CallStarts(c) =>
             LET p == pay'[c].path
             IN  /\ pay'[c].sent[1].signed =>
                       /\ lastTerms[p].kind = "terms"
                       /\ now - lastTerms[p].at <= 3600000
                       /\ pay'[c].sent[1].payTo = lastTerms[p].option.payTo
                 /\ lastTerms[p].kind = "none" => pay'[c].sent = <<Unsigned>>
       /\ \A rsp \in UpstreamResponses :
             (EngineFirstResponse(c, rsp) /\ pay'[c].pc = "fetch2") =>
                 /\ rsp.status = 402
                 /\ HasOption(rsp.hdr)
                 /\ Len(pay'[c].sent) = 2
                 /\ pay'[c].sent[2].signed
                 /\ pay'[c].sent[2].payTo = rsp.hdr.accepts[1].payTo
                 /\ pay'[c].path = pay[c].path

C38_PayeeComesFromChallenge == [][C38_Step]_vars

\* a first attempt pre-signed to the cached payee was answered with a
\* challenge naming another payee, and the retry is signed to that one
C38_Witness ==
    \E c \in Calls :
        /\ pay[c].pc = "fetch2"
        /\ pay[c].sent = <<Signed("payeeA", 2500), Signed("payeeB", 4000)>>
        /\ lastTerms[pay[c].path].option.payTo = "payeeB"

----------------------------------------------------------------------------
(* Claims about reads that invalidate() overtakes, over SpecMonitor *)

\* the cache holds a value that checkBalance would serve now
ServableNow == cachedBalance # NullBalance /\ now - cachedAt < 30000

\* C39: the result of an on-chain read that began before an invalidate() is
\* never in the cache as a value that a checkBalance starting now would be
\* answered with instead of reading the chain.
C39_OvertakenReadNeverInstalled == ~ (mon.old /\ ServableNow)

----------------------------------------------------------------------------
(* Claims about the format of deduplicated responses, over Spec *)

\* r was answered by the deduplicator: from the completed cache or from the
\* in-flight request it waited for
FromDedup(r) == req[r].pc = "done" /\ req[r].via \in {"cached", "inflight"}

\* the wire format r's caller asked for
RequestedFormat(r) == IF req[r].stream THEN "sse" ELSE "upstream"

\* C40: a response served from the deduplicator has the wire format its
\* caller requested: the event stream for stream:true, the upstream's JSON
\* otherwise (for bodies that are rewritten to stream:false before the key is
\* computed, so that both kinds of caller share one key).
C40_DedupServesRequestedFormat ==
    \A r \in Reqs :
        (FromDedup(r) /\ ~ RoutingThrows(req[r].body)) =>
            req[r].out.headers = RequestedFormat(r)

====
